---- MODULE Spec2Model ----
(***************************************************************************)
(* A model of the Patch1 patch database (src/src/data.py, PatchDatabase)   *)
(* and of the controller that drives it (src/src/app.py, App).             *)
(*                                                                         *)
(* Python strings are sequences of one-character strings, so that the      *)
(* encoding of a patch's tags ('Bass|Lead'), its splitting and the          *)
(* substring tests of pandas' str.get_dummies are computed, not assumed.   *)
(***************************************************************************)
EXTENDS Integers, Sequences, FiniteSets, TLC

(***************************************************************************)
(* Bounds of the model.                                                    *)
(***************************************************************************)
\* most files in a directory handed to bootstrap
MaxFiles == 2
\* most operations on the database in one run
MaxSteps == 5
\* most operations of the controller in one run
MaxAppSteps == 4
\* longest list of tags handed to encode_tags
MaxTags == 3
\* most files under a root handed to bootstrap on its own
MaxBootFiles == 3

(***************************************************************************)
(* Characters and strings.                                                 *)
(***************************************************************************)
\* data.py:17  _TAGS_SEP = '|'
TAGS_SEP == "|"

Chars == {"A", "B", "L", "X", "Y", "a", "b", "l", "|"}

\* code points, the order of Python's str comparison
Ord(c) ==
    CASE c = "A" -> 65 [] c = "B" -> 66 [] c = "L" -> 76 [] c = "X" -> 88
      [] c = "Y" -> 89 [] c = "a" -> 97 [] c = "b" -> 98 [] c = "l" -> 108
      [] c = "|" -> 124

\* str.lower() on one character
LowerChar(c) ==
    CASE c = "A" -> "a" [] c = "B" -> "b" [] c = "L" -> "l"
      [] c = "X" -> "x" [] c = "Y" -> "y" [] OTHER -> c

Lower(s) == [i \in 1..Len(s) |-> LowerChar(s[i])]

Range(s) == {s[i] : i \in 1..Len(s)}

InSeq(x, s) == \E i \in 1..Len(s) : s[i] = x

\* Python's  a < b  on strings: lexicographic on code points
RECURSIVE StrLess(_, _)
StrLess(a, b) ==
    IF Len(b) = 0 THEN FALSE
    ELSE IF Len(a) = 0 THEN TRUE
    ELSE IF a[1] # b[1] THEN Ord(a[1]) < Ord(b[1])
    ELSE StrLess(Tail(a), Tail(b))

\* Python's sorted() on a set of strings
RECURSIVE Sorted(_)
Sorted(S) ==
    IF S = {} THEN <<>>
    ELSE LET m == CHOOSE x \in S : \A y \in S \ {x} : StrLess(x, y)
         IN <<m>> \o Sorted(S \ {m})

\* the ascending list of the members of a set of integers
RECURSIVE Ascending(_)
Ascending(S) ==
    IF S = {} THEN <<>>
    ELSE LET m == CHOOSE x \in S : \A y \in S : x <= y
         IN <<m>> \o Ascending(S \ {m})

\* Python's  sub in s
Contains(s, sub) ==
    \E i \in 0..(Len(s) - Len(sub)) : SubSeq(s, i + 1, i + Len(sub)) = sub

\* Python's  s.split(_TAGS_SEP) ; ''.split('|') is ['']
RECURSIVE Split(_)
Split(s) ==
    IF \A i \in 1..Len(s) : s[i] # TAGS_SEP THEN <<s>>
    ELSE LET k == CHOOSE i \in 1..Len(s) :
                      /\ s[i] = TAGS_SEP
                      /\ \A j \in 1..(i - 1) : s[j] # TAGS_SEP
         IN <<SubSeq(s, 1, k - 1)>> \o Split(SubSeq(s, k + 1, Len(s)))

\* Python's  _TAGS_SEP.join(l)
RECURSIVE Join(_)
Join(l) ==
    IF Len(l) = 0 THEN <<>>
    ELSE IF Len(l) = 1 THEN l[1]
    ELSE l[1] \o <<TAGS_SEP>> \o Join(Tail(l))

\* a variant of encode_tags that puts the separator after any old_tags
encode_tags_always_sep(tags, old_tags) ==
    IF Len(old_tags) > 0
    THEN LET old_tagsl == Split(old_tags)
             fresh == SelectSeq(tags, LAMBDA tag : ~InSeq(tag, old_tagsl))
         IN old_tags \o <<TAGS_SEP>> \o Join(fresh)
    ELSE Join(tags)

\* a variant of encode_tags that forgets old_tags
encode_tags_overwrite(tags, old_tags) == Join(tags)

(***************************************************************************)
(* encode_tags, data.py:314-325                                            *)
(***************************************************************************)
encode_tags(tags, old_tags) ==
    IF Len(old_tags) > 0
    THEN LET old_tagsl == Split(old_tags)
             fresh == SelectSeq(tags, LAMBDA tag : ~InSeq(tag, old_tagsl))
         IN old_tags \o (IF Len(fresh) > 0 THEN <<TAGS_SEP>> ELSE <<>>) \o Join(fresh)
    ELSE Join(tags)

(***************************************************************************)
(* The patch files a directory can hold, and the inputs of the operations. *)
(***************************************************************************)
\* tag names, e.g. 'Acid', 'bass', 'Lead'
TagA == <<"A">>
Tagb == <<"b">>
TagL == <<"L">>
TagNames == {TagA, Tagb, TagL}

\* The model keeps two of the 99 parameters of common.py:17-19: 'osc2 shape'
\* (index 1) and 'filter amount' (index 21).
PARAM_INDEX == <<1, 21>>
\* common.py:19, the defaults of the two
PARAM_VALS == <<1, 128>>
\* common.py:21
NUM_PARAMS == Len(PARAM_VALS)
\* synth1.py:35-39, the declared maxima of the two
PARAM_RANGE == <<3, 127>>
\* common.py:30
NAME_DEF == <<"i", "n", "i", "t", "i", "a", "l", " ", "s", "o", "u", "n", "d">>

\* numpy's nan, the mark of a parameter a file leaves unset (patchfiles.py:46);
\* the values a file can set are written with digits only
nan == 0 - 1

\* the lines of a patch file: a line without '=' and ',' (text), a line
\* key=value (meta), a line index,value of digits (param)
TextLine(t) == [kind |-> "text", text |-> t, index |-> 0, value |-> 0]
MetaLine(k) == [kind |-> "meta", text |-> k, index |-> 0, value |-> 0]
ParamLine(i, v) == [kind |-> "param", text |-> <<>>, index |-> i, value |-> v]

\* The files of the catalogue: the name of the parent directory, whether the
\* file name has the form 000.sy1 (data.py:71), and the lines.
\*   1, 2, 3  well-formed files; 1 and 2 hold the same parameter values
\*   4        one line, no name: fails any sanity check, reads as a patch
\*   5        a parameter line with index 99, one past the last parameter
\*   6        a file of another name
AllFileIds == {1, 2, 3, 4, 5, 6}
File(f) ==
    CASE f = 1 -> [bank |-> <<"X">>, patch_file |-> TRUE,
                   lines |-> <<TextLine(<<"B", "a">>), MetaLine("color"), MetaLine("ver"),
                               ParamLine(21, 128)>>]
      [] f = 2 -> [bank |-> <<"Y">>, patch_file |-> TRUE,
                   lines |-> <<TextLine(<<"b", "L">>), MetaLine("color"), MetaLine("ver"),
                               ParamLine(1, 1)>>]
      [] f = 3 -> [bank |-> <<"Y">>, patch_file |-> TRUE,
                   lines |-> <<TextLine(<<"l">>), MetaLine("color"), MetaLine("ver"),
                               ParamLine(1, 3), ParamLine(21, 5)>>]
      [] f = 4 -> [bank |-> <<"X">>, patch_file |-> TRUE,
                   lines |-> <<ParamLine(1, 7)>>]
      [] f = 5 -> [bank |-> <<"X">>, patch_file |-> TRUE,
                   lines |-> <<TextLine(<<"b">>), MetaLine("color"), MetaLine("ver"),
                               ParamLine(99, 0)>>]
      [] f = 6 -> [bank |-> <<"X">>, patch_file |-> FALSE,
                   lines |-> <<TextLine(<<"B", "a">>), MetaLine("color"), MetaLine("ver")>>]

\* RE_NAME.search, patchfiles.py:7,32-33: the first line without '=' and ','
\* (the catalogue has no two such lines in a row), NAME_DEF when there is none
PatchName(lines) ==
    IF \A i \in 1..Len(lines) : lines[i].kind # "text" THEN NAME_DEF
    ELSE lines[CHOOSE i \in 1..Len(lines) :
                   /\ lines[i].kind = "text"
                   /\ \A j \in 1..(i - 1) : lines[j].kind # "text"].text

\* the position in the model's parameter list of the parameter of index i
ParamPos(i) == CHOOSE k \in 1..NUM_PARAMS : PARAM_INDEX[k] = i

\* the loop of patchfiles.py:46-56 over the first n parameter lines: a value
\* other than the default is stored, the others stay nan
RECURSIVE ReadParams(_, _)
ReadParams(plines, n) ==
    IF n = 0 THEN [k \in 1..NUM_PARAMS |-> nan]
    ELSE LET k == ParamPos(plines[n].index)
         IN IF PARAM_VALS[k] # plines[n].value
            THEN [ReadParams(plines, n - 1) EXCEPT ![k] = plines[n].value]
            ELSE ReadParams(plines, n - 1)

\* read_patchfile, patchfiles.py:25-58: [raised, bank, patch_name, params];
\* an index past the last parameter raises IndexError (patchfiles.py:55)
read_patchfile(f) ==
    LET plines == SelectSeq(File(f).lines, LAMBDA l : l.kind = "param")
    IN IF \E i \in 1..Len(plines) : plines[i].index >= 99
       THEN [raised |-> TRUE, bank |-> File(f).bank, patch_name |-> <<>>, params |-> <<>>]
       ELSE [raised |-> FALSE, bank |-> File(f).bank,
             patch_name |-> PatchName(File(f).lines),
             params |-> ReadParams(plines, Len(plines))]

\* fillna(INIT_PATCH), data.py:86-87
fillna(params) ==
    [k \in 1..Len(params) |-> IF params[k] = nan THEN PARAM_VALS[k] ELSE params[k]]

\* the row bootstrap makes of a file that was read: the bank is the parent
\* directory's name (patchfiles.py:43), params the filled parameter vector
FileIds == {1, 2, 3}
FileRows ==
    [f \in AllFileIds |->
        [bank |-> read_patchfile(f).bank, patch_name |-> read_patchfile(f).patch_name,
         params |-> fillna(read_patchfile(f).params)]]
FileMeta(f) == FileRows[f]

\* the directories bootstrap is called on: the files found under the root,
\* none under an empty or absent one (data.py:75-76)
Dirs == {S \in SUBSET FileIds : Cardinality(S) <= MaxFiles}

\* every order in which the pool can hand back the files of a directory
Orders(S) ==
    {o \in [1..Cardinality(S) -> S] : \A i, j \in 1..Cardinality(S) : o[i] = o[j] => i = j}

\* rule dictionaries {tag: regular expression} in insertion order; the
\* expressions are literal texts (no metacharacters), cf. sorting.py:3
RuleSets ==
    { << <<Tagb, <<"b">> >>, <<TagA, <<"a">> >> >>,
      << <<TagL, <<"l">> >> >> }

\* re.compile(re_str, flags=re.IGNORECASE).search(text) for a literal re_str
re_search(re_str, text) == Contains(Lower(text), Lower(re_str))

(***************************************************************************)
(* pandas' Series.str.get_dummies(sep) on the 'tags' column: the distinct  *)
(* non-empty pieces, sorted, and per row whether sep+tag+sep occurs in     *)
(* sep+text+sep.  data.py:148                                              *)
(***************************************************************************)
Padded(s) == <<TAGS_SEP>> \o s \o <<TAGS_SEP>>

get_dummies_columns(col) ==
    Sorted((UNION {Range(Split(Padded(col[i]))) : i \in 1..Len(col)}) \ {<<>>})

get_dummies(col) ==
    LET columns == get_dummies_columns(col)
    IN [columns |-> columns,
        rows |-> [i \in 1..Len(col) |->
                    [k \in 1..Len(columns) |->
                        IF Contains(Padded(col[i]), Padded(columns[k])) THEN 1 ELSE 0]]]

TagsColumn(df) == [i \in 1..Len(df) |-> df[i].tags]

\* the tag table of a database with no rows
NoTags == [columns |-> <<>>, rows |-> <<>>]

\* PatchDatabase._knn is None
NoKnn == [present |-> FALSE, usable |-> FALSE, labels |-> <<>>]

(***************************************************************************)
(* PatchDatabase, data.py:33-300.  A database object is a record:          *)
(*   active  _df is not None          df       the rows of _df             *)
(*   tagsdf  _tags                    tags     the cached column list      *)
(*   banks   the cached categories    knn      _knn                        *)
(*   cats    the categories of the categorical 'bank' column of _df        *)
(*   modified_db, modified_cls        the two flags                        *)
(***************************************************************************)
\* the class attributes, data.py:36-44
EmptyDb ==
    [active |-> FALSE, df |-> <<>>, cats |-> <<>>, tagsdf |-> NoTags, tags |-> <<>>,
     banks |-> <<>>, knn |-> NoKnn, modified_db |-> FALSE, modified_cls |-> FALSE]

\* pd.Categorical(meta_df['bank']), data.py:89: the sorted distinct values
Categorical(df) == Sorted({df[i].bank : i \in 1..Len(df)})

\* get_categories('bank'), data.py:234-238: the categories of the column
get_categories(db) == db.cats

\* a variant of refresh that adds the columns to the cached tag list
refresh_appending(db) ==
    LET t == get_dummies(TagsColumn(db.df))
    IN [db EXCEPT !.tagsdf = t, !.tags = db.tags \o t.columns, !.banks = get_categories(db)]

\* a variant of refresh that keeps the columns it had
refresh_unpruned(db) ==
    LET columns == Sorted(Range(db.tagsdf.columns) \cup
                          Range(get_dummies_columns(TagsColumn(db.df))))
    IN [db EXCEPT
          !.tagsdf = [columns |-> columns,
                      rows |-> [i \in 1..Len(db.df) |->
                                  [k \in 1..Len(columns) |->
                                      IF Contains(Padded(db.df[i].tags), Padded(columns[k]))
                                      THEN 1 ELSE 0]]],
          !.tags = columns,
          !.banks = get_categories(db)]

\* refresh(), data.py:144-153, without a tag table handed in
refresh(db) ==
    LET t == get_dummies(TagsColumn(db.df))
    IN [db EXCEPT !.tagsdf = t, !.tags = t.columns, !.banks = get_categories(db)]

\* refresh(_tags_df=tags), data.py:150-153
refresh_with(db, tags_df) ==
    [db EXCEPT !.tagsdf = tags_df, !.tags = tags_df.columns,
               !.banks = get_categories(db)]

\* PatchDatabase.__init__, data.py:46-59, for df is not None
NewPatchDatabase(df, cats, has_tags, tags_df, classifier, new) ==
    LET d0 == [EmptyDb EXCEPT !.active = TRUE, !.df = df, !.cats = cats,
                              !.modified_db = new]
        d1 == IF has_tags THEN refresh_with(d0, tags_df) ELSE refresh(d0)
    IN [d1 EXCEPT !.knn = classifier]

\* a variant of bootstrap that pairs the metadata, in the order the pool
\* returned them, with the parameters in the order of the files
bootstrap_unpaired(order) ==
    LET files == Ascending(Range(order))
        df == [i \in 1..Len(order) |->
                 [label |-> i - 1,
                  bank |-> FileMeta(order[i]).bank,
                  patch_name |-> FileMeta(order[i]).patch_name,
                  params |-> FileMeta(files[i]).params,
                  tags |-> <<>>]]
    IN NewPatchDatabase(df, Categorical(df), FALSE, NoTags, NoKnn, TRUE)

\* bootstrap, data.py:61-100: one row per file in the order the pool returned
\* them (sort_values' result is dropped, data.py:92), an empty tags column
bootstrap(order) ==
    LET df == [i \in 1..Len(order) |->
                 [label |-> i - 1,
                  bank |-> FileMeta(order[i]).bank,
                  patch_name |-> FileMeta(order[i]).patch_name,
                  params |-> FileMeta(order[i]).params,
                  tags |-> <<>>]]
    IN NewPatchDatabase(df, Categorical(df), FALSE, NoTags, NoKnn, TRUE)

\* The roots bootstrap is handed: a directory that is absent, or the files
\* under it in the order glob and the pool hand them back.
Roots ==
    {[exists |-> FALSE, order |-> <<>>]} \cup
    {[exists |-> TRUE, order |-> o] :
        o \in UNION {Orders(S) : S \in {T \in SUBSET AllFileIds :
                                            Cardinality(T) <= MaxBootFiles}}}

\* the files of a root that bootstrap reads, data.py:71-75; glob finds none
\* under an absent root
PatchFiles(root) == SelectSeq(root.order, LAMBDA f : File(f).patch_file)

\* bootstrap(root_dir), data.py:61-100, with its try block: [raised, db];
\* raised tells that the exception was returned in place of a database
bootstrap_root(root) ==
    IF \E i \in 1..Len(PatchFiles(root)) : read_patchfile(PatchFiles(root)[i]).raised
    THEN [raised |-> TRUE, db |-> EmptyDb]
    ELSE [raised |-> FALSE, db |-> bootstrap(PatchFiles(root))]

(***************************************************************************)
(* The persisted store: what is at the path handed to from_disk and        *)
(* to_disk (kind: "absent", a regular "file" or a directory "dir"), and in *)
(* the directory the HDF file and the pickled classifier beside it.  The   *)
(* HDF file (state "absent" or "store") holds the nodes named in keys:     *)
(* df and cats are what the node DB_KEY holds, tags what TAGS_KEY holds.   *)
(* handles are the modes of the handles on the HDF file that this process  *)
(* opened and did not close: PyTables keeps every open file in its         *)
(* registry until it is closed or the process ends.                        *)
(***************************************************************************)
\* data.py:21-22
DB_KEY == "patches"
TAGS_KEY == "TAGS"

NoDisk ==
    [kind |-> "dir",
     db_file |-> [state |-> "absent", keys |-> {}, df |-> <<>>, cats |-> <<>>,
                  tags |-> NoTags],
     cls_file |-> [exists |-> FALSE, knn |-> NoKnn],
     handles |-> {}]

\* HDFStore(path / 'db', mode='w'), data.py:131: a file without nodes
NewStore ==
    [state |-> "store", keys |-> {}, df |-> <<>>, cats |-> <<>>, tags |-> NoTags]

\* HDFStore.put(key, value, format), data.py:132-133: the file after the
\* call.  For a table without rows (value.empty) put with format='table'
\* returns before it makes a node; the fixed format writes the node of a
\* table without rows or columns as well.
put(file, key, value, cats, format) ==
    IF format = "table" /\ Len(value) = 0 THEN file
    ELSE IF key = DB_KEY
    THEN [file EXCEPT !.keys = @ \cup {key}, !.df = value, !.cats = cats]
    ELSE [file EXCEPT !.keys = @ \cup {key}, !.tags = value]

\* tables.open_file(name, mode) under HDFStore(path / 'db', mode),
\* data.py:109, 131, refuses a file of which the process holds a handle:
\* mode 'w' beside any handle, mode 'r' beside a handle of another mode
\* (ValueError).  This is the policy of PyTables built on HDF5 1.8.7 or later.
open_refused(d, mode) ==
    IF mode = "w" THEN d.handles # {} ELSE d.handles \ {"r"} # {}

\* from_disk, data.py:102-122: the result is [raised, db, disk].  The store
\* is opened at path / 'db' (data.py:109), which fails when path is no
\* directory or holds no such file, or when the file is held open for
\* writing; store.get(DB_KEY) is a KeyError for a store without that node
\* (data.py:110), and leaves from_disk before store.close() (data.py:116):
\* the handle stays open.  For a store without the node TAGS_KEY tags is None
\* (data.py:112-115) and __init__ computes the tag table.
from_disk(d) ==
    IF d.kind # "dir" \/ d.db_file.state # "store" \/ open_refused(d, "r")
    THEN [raised |-> TRUE, db |-> EmptyDb, disk |-> d]
    ELSE IF DB_KEY \notin d.db_file.keys
    THEN [raised |-> TRUE, db |-> EmptyDb,
          disk |-> [d EXCEPT !.handles = @ \cup {"r"}]]
    ELSE [raised |-> FALSE,
          db |-> NewPatchDatabase(d.db_file.df, d.db_file.cats,
                                  TAGS_KEY \in d.db_file.keys, d.db_file.tags,
                                  IF d.cls_file.exists THEN d.cls_file.knn ELSE NoKnn,
                                  FALSE),
          disk |-> d]

\* to_disk, data.py:124-137: the store after the call, [raised, wrote, disk].
\* The files are opened below path (data.py:131, 136), which fails when path
\* is no directory, and the first also when the process holds a handle of
\* the file: the file is then as it was.  Mode 'w' makes the file anew;
\* put(DB_KEY, None) of a database that is not active raises (data.py:132)
\* and leaves the file without nodes and, store.close() (data.py:134) not
\* reached, its handle open.
to_disk(db, d) ==
    IF d.kind # "dir"
    THEN [raised |-> db.modified_db \/ (db.knn.present /\ db.modified_cls),
          wrote |-> FALSE, disk |-> d]
    ELSE IF db.modified_db /\ open_refused(d, "w")
    THEN [raised |-> TRUE, wrote |-> FALSE, disk |-> d]
    ELSE
    LET wrote == db.modified_db
        raised == wrote /\ ~db.active
        d1 == IF ~wrote THEN d
              ELSE IF raised
              THEN [d EXCEPT !.db_file = NewStore, !.handles = @ \cup {"w"}]
              ELSE [d EXCEPT !.db_file =
                        put(put(NewStore, DB_KEY, db.df, db.cats, "table"),
                            TAGS_KEY, db.tagsdf, <<>>, "fixed")]
        d2 == IF ~raised /\ db.knn.present /\ db.modified_cls
              THEN [d1 EXCEPT !.cls_file = [exists |-> TRUE, knn |-> db.knn]]
              ELSE d1
    IN [raised |-> raised, wrote |-> wrote /\ ~raised, disk |-> d2]

\* is_active, data.py:139-142
is_active(db) == db.active

(***************************************************************************)
(* The wrappers, data.py:155-172.  func is the wrapped function's outcome  *)
(* [raised, df] resp. [raised, knn]; the result is [raised, db].           *)
(***************************************************************************)
\* a variant of volatile_db that leaves the cached indexes as they were
volatile_db_stale(db, func) ==
    IF func.raised THEN [raised |-> TRUE, db |-> db]
    ELSE LET d1 == [db EXCEPT !.df = func.df, !.modified_db = TRUE]
         IN IF db.active THEN [raised |-> FALSE, db |-> d1]
            ELSE [raised |-> TRUE, db |-> d1]

\* a variant of volatile_db that sets the flag before it calls the function
volatile_db_flag_first(db, func) ==
    IF func.raised THEN [raised |-> TRUE, db |-> [db EXCEPT !.modified_db = TRUE]]
    ELSE LET d1 == [db EXCEPT !.df = func.df, !.modified_db = TRUE]
         IN IF db.active THEN [raised |-> FALSE, db |-> refresh(d1)]
            ELSE [raised |-> TRUE, db |-> d1]

volatile_db(db, func) ==
    IF func.raised THEN [raised |-> TRUE, db |-> db]
    ELSE LET d1 == [db EXCEPT !.df = func.df, !.modified_db = TRUE]
         IN IF db.active THEN [raised |-> FALSE, db |-> refresh(d1)]
            ELSE [raised |-> TRUE, db |-> d1]  \* refresh fails on _df = None

volatile_cls(db, func) ==
    IF func.raised THEN [raised |-> TRUE, db |-> [db EXCEPT !.knn = func.knn]]
    ELSE [raised |-> FALSE, db |-> [db EXCEPT !.knn = func.knn, !.modified_cls = TRUE]]

(***************************************************************************)
(* The classifier, data.py:174-207.  scikit-learn's split, fit and score   *)
(* are a library; what they do to the object is one of three outcomes:     *)
(*   "split_raises"  train_test_split fails, _knn is not assigned          *)
(*   "score_raises"  _knn is assigned and fitted, score fails              *)
(*   "ok"            all three return                                      *)
(***************************************************************************)
FitOutcomes == {"split_raises", "score_raises", "ok"}

Tagged(df) == {i \in 1..Len(df) : df[i].tags # <<>>}

\* a variant of train_classifier without the check for tagged patches
train_classifier_func_unchecked(db, outcome) ==
    IF ~db.active \/ outcome = "split_raises"
    THEN [raised |-> TRUE, knn |-> db.knn]
    ELSE [raised |-> outcome # "ok",
          knn |-> [present |-> TRUE, usable |-> outcome = "ok",
                   labels |-> db.tagsdf.columns]]

train_classifier_func(db, outcome) ==
    IF ~db.active \/ Tagged(db.df) = {} \/ outcome = "split_raises"
    THEN [raised |-> TRUE, knn |-> db.knn]
    ELSE [raised |-> outcome # "ok",
          knn |-> [present |-> TRUE, usable |-> outcome = "ok",
                   labels |-> db.tagsdf.columns]]

train_classifier(db, outcome) == volatile_cls(db, train_classifier_func(db, outcome))

\* the predictions predict() returns: per row position the set of the label
\* columns predicted 1 (columns counted from 1).  The model draws them from
\* the predictions that are all 0 outside one row.
Predictions(db) ==
    {p \in [1..Len(db.df) -> SUBSET (1..Len(db.knn.labels))] :
        \A i, j \in 1..Len(db.df) : p[i] # {} /\ p[j] # {} => i = j}

\* a variant of classify_tags that sets the predicted tags in place of the old
classify_tags_func_replacing(db, predictions) ==
    IF ~db.knn.present \/ ~db.knn.usable \/ ~db.active
    THEN [raised |-> TRUE, df |-> db.df]
    ELSE LET n == Len(db.df)
             bad(i) == \/ db.df[i].label + 1 > n
                       \/ \E k \in predictions[db.df[i].label + 1] : k > Len(db.tags)
             classify(i) ==
                 encode_tags([j \in 1..Cardinality(predictions[db.df[i].label + 1]) |->
                                 db.tags[Ascending(predictions[db.df[i].label + 1])[j]]],
                             <<>>)
         IN IF \E i \in 1..n : bad(i)
            THEN [raised |-> TRUE, df |-> db.df]
            ELSE [raised |-> FALSE,
                  df |-> [i \in 1..n |-> [db.df[i] EXCEPT !.tags = classify(i)]]]

\* classify_tags, data.py:195-207, inside the wrapper
classify_tags_func(db, predictions) ==
    IF ~db.knn.present \/ ~db.knn.usable \/ ~db.active
    THEN [raised |-> TRUE, df |-> db.df]
    ELSE LET n == Len(db.df)
             bad(i) == \/ db.df[i].label + 1 > n
                       \/ \E k \in predictions[db.df[i].label + 1] : k > Len(db.tags)
             classify(i) ==
                 encode_tags([j \in 1..Cardinality(predictions[db.df[i].label + 1]) |->
                                 db.tags[Ascending(predictions[db.df[i].label + 1])[j]]],
                             db.df[i].tags)
         IN IF \E i \in 1..n : bad(i)
            THEN [raised |-> TRUE, df |-> db.df]
            ELSE [raised |-> FALSE,
                  df |-> [i \in 1..n |-> [db.df[i] EXCEPT !.tags = classify(i)]]]

classify_tags(db, predictions) == volatile_db(db, classify_tags_func(db, predictions))

(***************************************************************************)
(* Searches, data.py:209-232.  A result is [raised, rows]; rows are the    *)
(* META_DF_COLS slice of the matching rows, keyed by the row label.        *)
(***************************************************************************)
Meta(row) ==
    [label |-> row.label, bank |-> row.bank, patch_name |-> row.patch_name,
     tags |-> row.tags]

\* self._df.loc[mask][META_DF_COLS] for a mask over the row positions
Slice(df, mask(_)) ==
    LET keep == SelectSeq([i \in 1..Len(df) |-> i], mask)
    IN [j \in 1..Len(keep) |-> Meta(df[keep[j]])]

NoResult == [raised |-> TRUE, rows |-> <<>>]

\* the labels of the rows of a search result
Labels(rows) == {rows[i].label : i \in 1..Len(rows)}

ColumnOf(tagsdf, tag) == CHOOSE k \in 1..Len(tagsdf.columns) : tagsdf.columns[k] = tag

\* a variant of find_patches_by_tags that takes the logical or of the masks
find_patches_by_tags_any(db, tags) ==
    IF \/ ~db.active
       \/ Len(tags) = 0
       \/ \E j \in 1..Len(tags) : ~InSeq(tags[j], db.tagsdf.columns)
    THEN NoResult
    ELSE [raised |-> FALSE,
          rows |-> Slice(db.df,
                         LAMBDA i : \E j \in 1..Len(tags) :
                             db.tagsdf.rows[i][ColumnOf(db.tagsdf, tags[j])] = 1)]

\* data.py:221-226.  self._tags[tag] is a KeyError for a tag that is no
\* column; logical_and.reduce([]) is the scalar True, which .loc looks up as
\* a row label and does not find (KeyError).
find_patches_by_tags(db, tags) ==
    IF \/ ~db.active
       \/ Len(tags) = 0
       \/ \E j \in 1..Len(tags) : ~InSeq(tags[j], db.tagsdf.columns)
    THEN NoResult
    ELSE [raised |-> FALSE,
          rows |-> Slice(db.df,
                         LAMBDA i : \A j \in 1..Len(tags) :
                             db.tagsdf.rows[i][ColumnOf(db.tagsdf, tags[j])] = 1)]

\* data.py:209-219 on the 'bank' column, exact=True
find_patches_by_bank(db, find) ==
    IF ~db.active THEN NoResult
    ELSE [raised |-> FALSE, rows |-> Slice(db.df, LAMBDA i : db.df[i].bank = find)]

\* keyword_search, data.py:228-232: str.contains(kwd, case=False, regex=False)
keyword_search(db, kwd) ==
    IF ~db.active THEN NoResult
    ELSE [raised |-> FALSE,
          rows |-> Slice(db.df, LAMBDA i : Contains(Lower(db.df[i].patch_name), Lower(kwd)))]

(***************************************************************************)
(* Tagging, data.py:278-300.                                               *)
(***************************************************************************)
\* the keys of re_defs whose expression matches text, in dictionary order
Matching(re_defs, text) ==
    LET hits == SelectSeq(re_defs, LAMBDA d : re_search(d[2], text))
    IN [j \in 1..Len(hits) |-> hits[j][1]]

\* data.py:278-290.  On a table without rows DataFrame.apply returns a copy
\* of the table in place of a column of results, and the assignment of the
\* table to the one column 'tags' (data.py:290) depends on pandas, which
\* setup.py takes from 1.2.3 on: it is a ValueError from 1.3 on and stores
\* a column without rows before.
SetItemOutcomes == {"ValueError", "stored"}

tags_from_val_defs_func(db, re_defs, setitem) ==
    IF is_active(db) /\ Len(db.df) = 0 /\ setitem = "ValueError"
    THEN [raised |-> TRUE, df |-> db.df]
    ELSE IF is_active(db)
    THEN [raised |-> FALSE,
          df |-> [i \in 1..Len(db.df) |->
                    [db.df[i] EXCEPT
                        !.tags = encode_tags(Matching(re_defs, db.df[i].patch_name),
                                             db.df[i].tags)]]]
    ELSE [raised |-> FALSE, df |-> db.df]

tags_from_val_defs(db, re_defs, setitem) ==
    volatile_db(db, tags_from_val_defs_func(db, re_defs, setitem))

\* the position iloc[index] designates, 0 when index is out of range
Position(df, index) ==
    IF index >= 0 /\ index < Len(df) THEN index + 1
    ELSE IF index < 0 /\ index + Len(df) >= 0 THEN index + Len(df) + 1
    ELSE 0

\* data.py:292-300.  self._df.iloc[index] is a new Series holding a copy of
\* the row (the columns of _df have several dtypes, so no single block backs
\* the row); ['tags'] = ... stores the encoded tags in that copy, and _df
\* keeps the row it had.
change_tags_func(db, index, tags, replace) ==
    IF ~db.active \/ Position(db.df, index) = 0
    THEN [raised |-> TRUE, df |-> db.df]
    ELSE LET old_tags == IF replace THEN <<>> ELSE db.df[Position(db.df, index)].tags
             row_copy == [db.df[Position(db.df, index)] EXCEPT
                              !.tags = encode_tags(tags, old_tags)]
         IN [raised |-> FALSE, df |-> db.df]

change_tags(db, index, tags, replace) ==
    volatile_db(db, change_tags_func(db, index, tags, replace))

\* remove_duplicates(): of the rows with one parameter vector the first stays
remove_duplicates_func(db) ==
    IF ~db.active THEN [raised |-> TRUE, df |-> db.df]
    ELSE [raised |-> FALSE,
          df |-> LET keep == SelectSeq([i \in 1..Len(db.df) |-> i],
                                       LAMBDA i : \A j \in 1..(i - 1) :
                                           db.df[j].params # db.df[i].params)
                 IN [j \in 1..Len(keep) |-> db.df[keep[j]]]]

remove_duplicates(db) == volatile_db(db, remove_duplicates_func(db))

(***************************************************************************)
(* State.                                                                  *)
(*   db     the PatchDatabase object the caller holds                      *)
(*   disk   the persisted store, and the handles the process holds on it   *)
(*   app    the controller's fields (app.py:82-88)                         *)
(*   found  what the last search called on the database returned          *)
(*   last   the last operation, how it ended and what it was called with   *)
(*   steps  the number of operations so far                                *)
(***************************************************************************)
VARIABLES db, disk, app, found, last, steps

vars == <<db, disk, app, found, last, steps>>

\* the lists of tags the operations are called with
TagLists ==
    {<<>>, <<TagA>>, <<Tagb>>, <<TagL>>, <<TagA, TagL>>, <<Tagb, TagA>>}

\* the lists of tags change_tags is called with
ChangeLists == {<<>>, <<TagA>>, <<Tagb, TagL>>}

\* what is recorded of the last call: its name, whether it raised, and the
\* arguments and results the properties speak of
Op(op, raised) ==
    [op |-> op, raised |-> raised, wrote |-> FALSE, mutated |-> FALSE, index |-> 0,
     tags |-> <<>>, replace |-> FALSE, rules |-> <<>>, arg |-> <<>>, out |-> <<>>,
     signal |-> "none"]

\* app.py:82-88
NoQuery == [name |-> "", tags |-> <<>>, text |-> <<>>]
\* constructed: App.__init__ (app.py:90-103) has returned
InitApp ==
    [modified_db |-> FALSE, last_query |-> NoQuery,
     last_result |-> [present |-> FALSE, rows |-> <<>>],
     active_patch |-> -1, tags |-> <<>>, banks |-> <<>>, constructed |-> FALSE]

\* a directory whose store holds the patch table alone, the store from_disk
\* provides for at data.py:112-115: two patches, the first one tagged
UntaggedStore ==
    [NoDisk EXCEPT !.db_file =
        put(NewStore, DB_KEY,
            [bootstrap(<<1, 3>>).df EXCEPT ![1].tags = <<"A">>],
            bootstrap(<<1, 3>>).cats, "table")]

\* no database is loaded; the directory holds no store yet, or one of an
\* earlier run
Init ==
    /\ db = EmptyDb
    /\ disk \in {NoDisk, UntaggedStore}
    /\ app = InitApp
    /\ found = NoResult
    /\ last = Op("init", FALSE)
    /\ steps = 0

\* one more operation, while the run may go on
Step ==
    /\ steps < MaxSteps
    /\ steps' = steps + 1

(***************************************************************************)
(* The operations of the database, called by a client that holds db.       *)
(***************************************************************************)
\* db = PatchDatabase.bootstrap(root_dir)
Bootstrap ==
    \E S \in Dirs : \E order \in Orders(S) :
        /\ Step
        /\ db' = bootstrap(order)
        /\ last' = Op("bootstrap", FALSE)
        /\ found' = NoResult
        /\ UNCHANGED <<disk, app>>

\* db = PatchDatabase.from_disk(path)
FromDisk ==
    /\ Step
    /\ db' = IF from_disk(disk).raised THEN db ELSE from_disk(disk).db
    /\ disk' = from_disk(disk).disk
    /\ last' = Op("from_disk", from_disk(disk).raised)
    /\ found' = NoResult
    /\ UNCHANGED app

\* db.to_disk(path)
ToDisk ==
    /\ Step
    /\ disk' = to_disk(db, disk).disk
    /\ last' = [Op("to_disk", to_disk(db, disk).raised) EXCEPT
                   !.wrote = to_disk(db, disk).wrote]
    /\ found' = NoResult
    /\ UNCHANGED <<db, app>>

\* db.tags_from_val_defs(re_defs, 'patch_name')
TagsFromValDefs ==
    \E re_defs \in RuleSets : \E setitem \in SetItemOutcomes :
        /\ Step
        /\ db' = tags_from_val_defs(db, re_defs, setitem).db
        /\ last' = [Op("tags_from_val_defs", tags_from_val_defs(db, re_defs, setitem).raised)
                       EXCEPT !.rules = re_defs]
        /\ found' = NoResult
        /\ UNCHANGED <<disk, app>>

\* db.change_tags(index, tags, replace)
ChangeTags ==
    \E index \in 0..Len(db.df) : \E tags \in ChangeLists : \E replace \in BOOLEAN :
        /\ Step
        /\ db' = change_tags(db, index, tags, replace).db
        /\ last' = [Op("change_tags", change_tags(db, index, tags, replace).raised)
                       EXCEPT !.index = index, !.tags = tags, !.replace = replace]
        /\ found' = NoResult
        /\ UNCHANGED <<disk, app>>

\* db.train_classifier()
TrainClassifier ==
    \E outcome \in FitOutcomes :
        /\ Step
        /\ db' = train_classifier(db, outcome).db
        /\ last' = Op("train_classifier", train_classifier(db, outcome).raised)
        /\ found' = NoResult
        /\ UNCHANGED <<disk, app>>

\* db.classify_tags()
ClassifyTags ==
    \E predictions \in Predictions(db) :
        /\ Step
        /\ db' = classify_tags(db, predictions).db
        /\ last' = Op("classify_tags", classify_tags(db, predictions).raised)
        /\ found' = NoResult
        /\ UNCHANGED <<disk, app>>

\* db.remove_duplicates()
RemoveDuplicates ==
    /\ Step
    /\ db' = remove_duplicates(db).db
    /\ last' = Op("remove_duplicates", remove_duplicates(db).raised)
    /\ found' = NoResult
    /\ UNCHANGED <<disk, app>>

\* db.find_patches_by_tags(tags)
FindPatchesByTags ==
    \E tags \in TagLists :
        /\ Step
        /\ found' = find_patches_by_tags(db, tags)
        /\ last' = [Op("find_patches_by_tags", find_patches_by_tags(db, tags).raised)
                       EXCEPT !.tags = tags]
        /\ UNCHANGED <<db, disk, app>>

Next ==
    \/ Bootstrap
    \/ FromDisk
    \/ ToDisk
    \/ TagsFromValDefs
    \/ ChangeTags
    \/ TrainClassifier
    \/ ClassifyTags
    \/ RemoveDuplicates
    \/ FindPatchesByTags

Spec == Init /\ [][Next]_vars

(***************************************************************************)
(* The controller, app.py:38-276.  Its handlers run to their end in one    *)
(* step; an exception leaves a handler at the call that raised it.  The    *)
(* controller's database object is db, the one App.__init__ made           *)
(* (app.py:99): bootstrap and from_disk are class methods that return a    *)
(* database of their own (data.py:61-122), and the controller drops what   *)
(* they return (app.py:230, 238).  disk is what is at 'db' in the data     *)
(* directory, the path the controller loads from and saves to (app.py:95,  *)
(* 97).  The controller is followed as a class: from the import of its     *)
(* module (ImportApp) and from App(schema) with the schema of the program  *)
(* and with the values for which App.__init__ returns (Construct).         *)
(***************************************************************************)
\* one more call of a handler of the controller that was constructed
AppStep ==
    /\ steps < MaxAppSteps
    /\ app.constructed
    /\ steps' = steps + 1

Query(name, tags, text) == [name |-> name, tags |-> tags, text |-> text]

\* len(q), app.py:42
QueryLen(q) == IF q.name = "tag_search" THEN Len(q.tags) ELSE Len(q.text)

\* the wrapped search functions, app.py:146-162
run_search(d, q) ==
    CASE q.name = "tag_search" -> find_patches_by_tags(d, q.tags)
      [] q.name = "bank_search" -> find_patches_by_bank(d, q.text)
      [] q.name = "keyword_search" -> keyword_search(d, q.text)

\* searcher, app.py:38-57: the result is [raised, app]
searcher(a, d, q) ==
    IF QueryLen(q) = 0 THEN [raised |-> FALSE, app |-> a]
    ELSE LET a1 == [a EXCEPT !.last_query = q]
         IN IF run_search(d, q).raised
            THEN [raised |-> TRUE, app |-> a1]
            ELSE [raised |-> FALSE,
                  app |-> [a1 EXCEPT !.last_result =
                                        [present |-> TRUE, rows |-> run_search(d, q).rows]]]

\* App.refresh, app.py:164-172: the result is [raised, app].  The cached tags
\* of the database are a list (data.py:43, 149, 152), and a list has no
\* to_list: app.py:167 raises AttributeError before a field is assigned.
app_refresh(a, d) == [raised |-> TRUE, app |-> a]

\* get_meta, app.py:133-144, raises for every active patch: the row is not in
\* last_result (app.py:137), or else PatchDatabase has no get_tags
\* (app.py:141)
get_meta_raises(a) == a.active_patch > -1

\* volatile, app.py:60-69.  func is the wrapped handler's outcome [raised, db];
\* the result is [raised, mutated, app, db]
volatile(a, func) ==
    IF func.raised
    THEN [raised |-> TRUE, mutated |-> FALSE, app |-> a, db |-> func.db]
    ELSE IF app_refresh(a, func.db).raised
    THEN [raised |-> TRUE, mutated |-> TRUE, app |-> app_refresh(a, func.db).app,
          db |-> func.db]
    ELSE [raised |-> FALSE, mutated |-> TRUE,
          app |-> [app_refresh(a, func.db).app EXCEPT !.modified_db = TRUE],
          db |-> func.db]

\* what is recorded of a handler wrapped in volatile; mutated tells that the
\* handler's own body ran to its end and changed the patches of database d
VolatileOp(op, a, d, func) ==
    [Op(op, volatile(a, func).raised) EXCEPT
        !.mutated = volatile(a, func).mutated /\ func.db.df # d.df]

\* new_database, app.py:225-230: bootstrap returns the database it built, or
\* the exception it caught (data.py:98-100); the body drops either and
\* returns, the controller's database d is as before
new_database(d, order) == [raised |-> FALSE, db |-> d]

NewDatabase ==
    \E S \in Dirs : \E order \in Orders(S) :
        /\ AppStep
        /\ app' = volatile(app, new_database(db, order)).app
        /\ db' = volatile(app, new_database(db, order)).db
        /\ last' = VolatileOp("new_database", app, db, new_database(db, order))
        /\ UNCHANGED <<disk, found>>

\* the rules a tagging by names runs with: TAGS_NAMES of src.sorting
\* (app.py:178), or what json.load gives of the file at the path handed to
\* tag_names_custom; open or json.load raises for a path that cannot be
\* opened or holds no JSON (app.py:186-187)
RuleSources == {"TAGS_NAMES", "file", "no file"}

\* the bodies of tag_names and tag_names_custom, app.py:174-189: [raised, db].
\* An exception of app.py:186-187 leaves the body before the database is
\* called
tag_names(d, source, re_defs, setitem) ==
    IF source = "no file" THEN [raised |-> TRUE, db |-> d]
    ELSE tags_from_val_defs(d, re_defs, setitem)

TagByNames ==
    \E source \in RuleSources : \E re_defs \in RuleSets : \E setitem \in SetItemOutcomes :
        /\ AppStep
        /\ app' = volatile(app, tag_names(db, source, re_defs, setitem)).app
        /\ db' = volatile(app, tag_names(db, source, re_defs, setitem)).db
        /\ last' = VolatileOp("tag_names", app, db, tag_names(db, source, re_defs, setitem))
        /\ UNCHANGED <<disk, found>>

\* tag_similar, app.py:191-201
tag_similar(d, outcome, predictions) ==
    IF train_classifier(d, outcome).raised
    THEN train_classifier(d, outcome)
    ELSE classify_tags(train_classifier(d, outcome).db, predictions)

TagSimilar ==
    \E outcome \in FitOutcomes :
    \E predictions \in Predictions(train_classifier(db, outcome).db) :
        /\ AppStep
        /\ app' = volatile(app, tag_similar(db, outcome, predictions)).app
        /\ db' = volatile(app, tag_similar(db, outcome, predictions)).db
        /\ last' = VolatileOp("tag_similar", app, db, tag_similar(db, outcome, predictions))
        /\ UNCHANGED <<disk, found>>

\* add_tag, app.py:203-207
add_tag(d, active_patch, tag) == change_tags(d, active_patch, <<tag>>, FALSE)

AddTag ==
    \E tag \in TagNames :
        /\ AppStep
        /\ app' = volatile(app, add_tag(db, app.active_patch, tag)).app
        /\ db' = volatile(app, add_tag(db, app.active_patch, tag)).db
        /\ last' = VolatileOp("add_tag", app, db, add_tag(db, app.active_patch, tag))
        /\ UNCHANGED <<disk, found>>

\* remove_tag, app.py:209-215: PatchDatabase has no get_tags, the first line
\* of the body raises AttributeError (app.py:213)
remove_tag(d, active_patch, tag) == [raised |-> TRUE, db |-> d]

RemoveTag ==
    \E tag \in TagNames :
        /\ AppStep
        /\ app' = volatile(app, remove_tag(db, app.active_patch, tag)).app
        /\ db' = volatile(app, remove_tag(db, app.active_patch, tag)).db
        /\ last' = VolatileOp("remove_tag", app, db, remove_tag(db, app.active_patch, tag))
        /\ UNCHANGED <<disk, found>>

\* unduplicate, app.py:252-256: PatchDatabase has no remove_duplicates, the
\* body raises AttributeError (app.py:256)
unduplicate(d) == [raised |-> TRUE, db |-> d]

Unduplicate ==
    /\ AppStep
    /\ app' = volatile(app, unduplicate(db)).app
    /\ db' = volatile(app, unduplicate(db)).db
    /\ last' = VolatileOp("unduplicate", app, db, unduplicate(db))
    /\ UNCHANGED <<disk, found>>

\* The exception pd.HDFStore raises for a path that cannot be opened depends
\* on the library's version: FileNotFoundError, or an OSError that is none.
OpenErrors == {"FileNotFoundError", "OSError"}

\* open_database, app.py:232-243: the result is [raised, signal, app, db].
\* Nothing is done unless a regular file is at the path (app.py:236).
\* from_disk opens the store at path / 'db' (data.py:109), below that
\* regular file, and raises err.  The handler of app.py:241-243 catches
\* FileNotFoundError alone: it passes it over when silent, and else raises
\* 'That is not a valid data file.' (signal "invalid"); another exception
\* leaves open_database (signal "error").  What from_disk returns is dropped
\* (app.py:238), and the exception of refresh is no FileNotFoundError.
open_database(a, d, dk, silent, err) ==
    IF dk.kind # "file"
    THEN [raised |-> FALSE, signal |-> "none", app |-> a, db |-> d]
    ELSE IF from_disk(dk).raised
    THEN IF err # "FileNotFoundError"
         THEN [raised |-> TRUE, signal |-> "error", app |-> a, db |-> d]
         ELSE IF silent
         THEN [raised |-> FALSE, signal |-> "none", app |-> a, db |-> d]
         ELSE [raised |-> TRUE, signal |-> "invalid", app |-> a, db |-> d]
    ELSE LET a1 == [a EXCEPT !.modified_db = FALSE]
         IN [raised |-> app_refresh(a1, d).raised,
             signal |-> IF app_refresh(a1, d).raised THEN "error" ELSE "none",
             app |-> app_refresh(a1, d).app,
             db |-> d]

OpenDatabase ==
    \E silent \in BOOLEAN : \E err \in OpenErrors :
        /\ AppStep
        /\ app' = open_database(app, db, disk, silent, err).app
        /\ db' = open_database(app, db, disk, silent, err).db
        /\ last' = [Op("open_database", open_database(app, db, disk, silent, err).raised)
                       EXCEPT !.signal = open_database(app, db, disk, silent, err).signal]
        /\ UNCHANGED <<disk, found>>

\* save_database, app.py:245-250, with the default path; an exception of
\* to_disk leaves it before app.py:250
SaveDatabase ==
    /\ AppStep
    /\ IF is_active(db) /\ app.modified_db
       THEN /\ disk' = to_disk(db, disk).disk
            /\ app' = IF to_disk(db, disk).raised THEN app
                      ELSE [app EXCEPT !.modified_db = FALSE]
            /\ last' = [Op("save_database", to_disk(db, disk).raised) EXCEPT
                           !.wrote = to_disk(db, disk).wrote]
       ELSE /\ UNCHANGED <<disk, app>>
            /\ last' = Op("save_database", FALSE)
    /\ UNCHANGED <<db, found>>

\* what is recorded of a search handler
SearchOp(a, d, q) == [Op(q.name, searcher(a, d, q).raised) EXCEPT !.tags = q.tags]

\* tag_search, app.py:146-150
TagSearch ==
    \E tags \in TagLists :
        /\ AppStep
        /\ app' = searcher(app, db, Query("tag_search", tags, <<>>)).app
        /\ last' = SearchOp(app, db, Query("tag_search", tags, <<>>))
        /\ UNCHANGED <<db, disk, found>>

\* bank_search, app.py:152-156
BankSearch ==
    \E bank \in {<<"X">>, <<"Y">>} :
        /\ AppStep
        /\ app' = searcher(app, db, Query("bank_search", <<>>, bank)).app
        /\ last' = SearchOp(app, db, Query("bank_search", <<>>, bank))
        /\ UNCHANGED <<db, disk, found>>

\* keyword_search, app.py:158-162
KeywordSearch ==
    \E kwd \in {<<>>, <<"b">>} :
        /\ AppStep
        /\ app' = searcher(app, db, Query("keyword_search", <<>>, kwd)).app
        /\ last' = SearchOp(app, db, Query("keyword_search", <<>>, kwd))
        /\ UNCHANGED <<db, disk, found>>

\* update_active_patch, gui.py:380-389: the selected row of the result, or
\* none, becomes the active patch, and update_meta calls get_meta
UpdateActivePatch ==
    \E sel \in Labels(app.last_result.rows) \cup {-1} :
        /\ AppStep
        /\ sel # app.active_patch
        /\ app' = [app EXCEPT !.active_patch = sel]
        /\ last' = Op("update_active_patch", get_meta_raises([app EXCEPT !.active_patch = sel]))
        /\ UNCHANGED <<db, disk, found>>

\* The import of src.app.  app.py:5 imports src.data, whose line 12 imports
\* patchfiles as a module of its own: started as the package src (python -m
\* src, the console script of setup.py), the path holds no such module and
\* the import ends in ModuleNotFoundError (data.py:12).  With the directory
\* of the modules on the path as well the import goes on to app.py:20, which
\* reads APP_NAME_INLINE; common.py defines APP_NAME alone (common.py:6), and
\* the import ends in NameError.  Either way no controller exists.  No layout
\* of the modules as they are gives the third outcome: "imported" is the
\* module with the two names bound for it, from where the code of the class
\* is followed.
ImportOutcomes == {"ModuleNotFoundError", "NameError", "imported"}

\* from src.app import App
ImportApp ==
    \E outcome \in ImportOutcomes :
        /\ last.op = "init"
        /\ last' = [Op("import", outcome # "imported") EXCEPT !.signal = outcome]
        /\ UNCHANGED <<db, disk, app, found, steps>>

\* what the controller is constructed with: the schema object of the program
\* (Synth1(), gui.py:111), None, or a table of patches
Schemas ==
    {[kind |-> "Synth1", order |-> <<>>], [kind |-> "None", order |-> <<>>]} \cup
    {[kind |-> "table", order |-> o] : o \in {<<1, 3>>, <<2>>}}

\* PatchDatabase(self.schema), app.py:99: the schema is taken for the table
\* of patches (data.py:46-56): [raised, db].  None gives the database with
\* nothing loaded; a table is refreshed from; of the schema object
\* self._df['tags'] (data.py:148) raises TypeError
PatchDatabaseOfSchema(schema) ==
    CASE schema.kind = "Synth1" -> [raised |-> TRUE, db |-> EmptyDb]
      [] schema.kind = "None" -> [raised |-> FALSE, db |-> EmptyDb]
      [] schema.kind = "table" ->
            [raised |-> FALSE,
             db |-> NewPatchDatabase(bootstrap(schema.order).df, bootstrap(schema.order).cats,
                                     FALSE, NoTags, NoKnn, FALSE)]

\* App.__init__, app.py:90-103, with load_config (app.py:258-276) and its
\* open_database(silent=True): the result is [raised, signal, app, db]
app_init(a, dk, schema, err) ==
    IF PatchDatabaseOfSchema(schema).raised
    THEN [raised |-> TRUE, signal |-> "error", app |-> a, db |-> EmptyDb]
    ELSE LET r == open_database(a, PatchDatabaseOfSchema(schema).db, dk, TRUE, err)
         IN [raised |-> r.raised, signal |-> r.signal,
             app |-> [r.app EXCEPT !.constructed = ~r.raised], db |-> r.db]

Construct ==
    \E schema \in Schemas : \E err \in OpenErrors :
    \E r \in {app_init(app, disk, schema, err)} :
        /\ last.op = "import"
        /\ ~last.raised
        /\ app' = r.app
        /\ db' = r.db
        /\ last' = [Op("__init__", r.raised) EXCEPT !.signal = r.signal]
        /\ UNCHANGED <<disk, found, steps>>

NextApp ==
    \/ ImportApp
    \/ Construct
    \/ NewDatabase
    \/ OpenDatabase
    \/ SaveDatabase
    \/ TagByNames
    \/ TagSimilar
    \/ AddTag
    \/ RemoveTag
    \/ Unduplicate
    \/ TagSearch
    \/ BankSearch
    \/ KeywordSearch
    \/ UpdateActivePatch

\* 'db' in the data directory (app.py:97) is absent, a data file, or a
\* directory
NoDataFile == [NoDisk EXCEPT !.kind = "absent"]
DataFile == [NoDisk EXCEPT !.kind = "file"]

\* before src.app is imported: no controller yet
InitController ==
    /\ db = EmptyDb
    /\ disk \in {NoDataFile, DataFile, NoDisk}
    /\ app = InitApp
    /\ found = NoResult
    /\ last = Op("init", FALSE)
    /\ steps = 0

SpecApp == InitController /\ [][NextApp]_vars

(***************************************************************************)
(* encode_tags on its own, data.py:314-325: the arguments are drawn in the *)
(* initial state, the one action applies the function to them.             *)
(***************************************************************************)
\* tag names of one and of two letters, one a part of the other
EncodeNames == {<<"A">>, <<"b">>, <<"A", "b">>}

\* the lists of at most MaxTags names, repetitions included
EncodeLists == UNION {[1..n -> EncodeNames] : n \in 0..MaxTags}

InitEncode ==
    /\ db = EmptyDb
    /\ disk = NoDisk
    /\ app = InitApp
    /\ found = NoResult
    /\ steps = 0
    /\ \E tags \in EncodeLists : \E old \in EncodeLists :
           last = [Op("input", FALSE) EXCEPT !.tags = tags, !.arg = Join(old)]

EncodeTags ==
    /\ last.op = "input"
    /\ last' = [last EXCEPT !.op = "encode_tags",
                            !.out = encode_tags(last.tags, last.arg)]
    /\ UNCHANGED <<db, disk, app, found, steps>>

NextEncode == EncodeTags

SpecEncode == InitEncode /\ [][NextEncode]_vars

(***************************************************************************)
(* bootstrap on its own, data.py:61-100: the database held before the call *)
(* is drawn in the initial state (none, or one of an earlier bootstrap),   *)
(* the one action calls bootstrap on a root.  bootstrap is a classmethod:  *)
(* the database held before stays when an exception comes back.            *)
(***************************************************************************)
InitBootstrap ==
    /\ db \in {EmptyDb, bootstrap(<<1>>), bootstrap(<<3, 2>>)}
    /\ disk = NoDisk
    /\ app = InitApp
    /\ found = NoResult
    /\ steps = 0
    /\ last = Op("init", FALSE)

BootstrapRoot ==
    \E root \in Roots :
        /\ last.op = "init"
        /\ db' = IF bootstrap_root(root).raised THEN db ELSE bootstrap_root(root).db
        /\ last' = [Op("bootstrap", bootstrap_root(root).raised) EXCEPT !.arg = root]
        /\ UNCHANGED <<disk, app, found, steps>>

NextBootstrap == BootstrapRoot

SpecBootstrap == InitBootstrap /\ [][NextBootstrap]_vars

(***************************************************************************)
(* A client that keeps a search result while the database changes, and     *)
(* then hands the identifier of one of its rows back to the database.      *)
(***************************************************************************)
MaxRowSteps == 3

\* get_patch_by_index, data.py:240-243: self._df.iloc[index]
get_patch_by_index(db0, index) ==
    IF ~db0.active \/ Position(db0.df, index) = 0
    THEN [raised |-> TRUE, patch |-> <<>>]
    ELSE [raised |-> FALSE, patch |-> Meta(db0.df[Position(db0.df, index)])]

\* the keywords the client searches for
Keywords == {<<"b">>, <<"l">>}

InitRows ==
    /\ db \in {bootstrap(o) : o \in UNION {Orders(S) : S \in {T \in SUBSET FileIds :
                                  Cardinality(T) >= 1 /\ Cardinality(T) <= MaxBootFiles}}}
    /\ disk = NoDisk
    /\ app = InitApp
    /\ found = NoResult
    /\ steps = 0
    /\ last = Op("init", FALSE)

\* found = db.keyword_search(kwd)
RowsKeywordSearch ==
    \E kwd \in Keywords :
        /\ steps < MaxRowSteps
        /\ steps' = steps + 1
        /\ found' = keyword_search(db, kwd)
        /\ last' = [Op("keyword_search", keyword_search(db, kwd).raised) EXCEPT !.arg = kwd]
        /\ UNCHANGED <<db, disk, app>>

\* db.tags_from_val_defs(re_defs, 'patch_name'), the result is kept
RowsTagsFromValDefs ==
    \E re_defs \in RuleSets : \E setitem \in SetItemOutcomes :
        /\ steps < MaxRowSteps
        /\ steps' = steps + 1
        /\ db' = tags_from_val_defs(db, re_defs, setitem).db
        /\ last' = [Op("tags_from_val_defs", tags_from_val_defs(db, re_defs, setitem).raised)
                       EXCEPT !.rules = re_defs]
        /\ UNCHANGED <<disk, app, found>>

\* db.change_tags(index, tags, replace) for a row of the result, which is kept
RowsChangeTags ==
    \E index \in Labels(found.rows) : \E tags \in ChangeLists : \E replace \in BOOLEAN :
        /\ steps < MaxRowSteps
        /\ steps' = steps + 1
        /\ db' = change_tags(db, index, tags, replace).db
        /\ last' = [Op("change_tags", change_tags(db, index, tags, replace).raised)
                       EXCEPT !.index = index, !.tags = tags, !.replace = replace]
        /\ UNCHANGED <<disk, app, found>>

\* db.remove_duplicates(), the result is kept
RowsRemoveDuplicates ==
    /\ steps < MaxRowSteps
    /\ steps' = steps + 1
    /\ db' = remove_duplicates(db).db
    /\ last' = Op("remove_duplicates", remove_duplicates(db).raised)
    /\ UNCHANGED <<disk, app, found>>

\* db.get_patch_by_index(index) for a row of the result
RowsGetPatchByIndex ==
    \E index \in Labels(found.rows) :
        /\ steps < MaxRowSteps
        /\ steps' = steps + 1
        /\ last' = [Op("get_patch_by_index", get_patch_by_index(db, index).raised)
                       EXCEPT !.index = index, !.out = get_patch_by_index(db, index).patch]
        /\ UNCHANGED <<db, disk, app, found>>

NextRows ==
    \/ RowsKeywordSearch
    \/ RowsTagsFromValDefs
    \/ RowsChangeTags
    \/ RowsRemoveDuplicates
    \/ RowsGetPatchByIndex

SpecRows == InitRows /\ [][NextRows]_vars

(***************************************************************************)
(* The patch files of a schema, patches.py:53-123 and synth1.py:87-115.    *)
(* Texts are sequences of characters.  The schema is Synth1 cut down to    *)
(* NUM_PARAMS parameters, written under the indices 0..NUM_PARAMS-1.       *)
(***************************************************************************)
MaxParamValue == 11

NL == "\n"

\* Python's  s.split(sep)  for a separator of one character
RECURSIVE SplitBy(_, _)
SplitBy(s, sep) ==
    IF \A i \in 1..Len(s) : s[i] # sep THEN <<s>>
    ELSE LET k == CHOOSE i \in 1..Len(s) :
                      /\ s[i] = sep
                      /\ \A j \in 1..(i - 1) : s[j] # sep
         IN <<SubSeq(s, 1, k - 1)>> \o SplitBy(SubSeq(s, k + 1, Len(s)), sep)

\* Python's  sep.join(l)
RECURSIVE JoinBy(_, _)
JoinBy(l, sep) ==
    IF Len(l) = 0 THEN <<>>
    ELSE IF Len(l) = 1 THEN l[1]
    ELSE l[1] \o sep \o JoinBy(Tail(l), sep)

\* the result of a search that finds nothing, and a slice end left open
NotFound == 0 - 1
None == 0 - 1

\* Python's  s.index(sub, start)  with positions counted from 0; NotFound
\* stands for the ValueError
IndexFrom(s, sub, start) ==
    LET hits == {i \in start..(Len(s) - Len(sub)) : SubSeq(s, i + 1, i + Len(sub)) = sub}
    IN IF hits = {} THEN NotFound ELSE CHOOSE i \in hits : \A j \in hits : i <= j

DigitChars == <<"0", "1", "2", "3", "4", "5", "6", "7", "8", "9">>

\* str(n) for an int
RECURSIVE IntToStr(_)
IntToStr(n) ==
    IF n < 0 THEN <<"-">> \o IntToStr(0 - n)
    ELSE IF n < 10 THEN <<DigitChars[n + 1]>>
    ELSE IntToStr(n \div 10) \o <<DigitChars[(n % 10) + 1]>>

IsDigits(s) == Len(s) > 0 /\ \A i \in 1..Len(s) : InSeq(s[i], DigitChars)

RECURSIVE DigitsValue(_)
DigitsValue(s) ==
    IF Len(s) = 0 THEN 0
    ELSE 10 * DigitsValue(SubSeq(s, 1, Len(s) - 1))
         + (CHOOSE d \in 0..9 : DigitChars[d + 1] = s[Len(s)])

\* int(s) for a text of an optional sign and decimal digits; any other text
\* raises ValueError
StrToInt(s) ==
    IF IsDigits(s) THEN [raised |-> FALSE, value |-> DigitsValue(s)]
    ELSE IF Len(s) > 1 /\ s[1] = "-" /\ IsDigits(Tail(s))
    THEN [raised |-> FALSE, value |-> 0 - DigitsValue(Tail(s))]
    ELSE IF Len(s) > 1 /\ s[1] = "+" /\ IsDigits(Tail(s))
    THEN [raised |-> FALSE, value |-> DigitsValue(Tail(s))]
    ELSE [raised |-> TRUE, value |-> 0]

\* file_syntax = '{patch_name}\ncolor={color}\nver={ver}\n{params}' split at
\* its brackets, patches.py:46-47: the texts between the fields, and the fields
COLOR == <<"c", "o", "l", "o", "r">>
VER == <<"v", "e", "r">>
file_layout_texts == << <<>>, <<NL>> \o COLOR \o <<"=">>, <<NL>> \o VER \o <<"=">>, <<NL>>, <<>> >>
file_layout_fields == <<"patch_name", "color", "ver", "params">>

\* file_param = '{index},{value}' split at its brackets
param_layout_texts == << <<>>, <<",">>, <<>> >>
param_layout_fields == <<"index", "value">>
param_delimiter == <<NL>>

\* defaults of the metadata, synth1.py:49
COLOR_DEF == <<"d", "e", "f", "a", "u", "l", "t">>
VER_DEF == <<"1", "1", "3">>

\* __unformat, patches.py:72-90: the values of the fields in the order of the
\* layout; field k lies between texts[k] and texts[k + 1]
RECURSIVE unformat_loop(_, _, _, _)
unformat_loop(s, texts, k, f_index) ==
    IF k > Len(texts) - 1 THEN [raised |-> FALSE, vals |-> <<>>]
    ELSE LET at == IndexFrom(s, texts[k], IF f_index = None THEN 0 ELSE f_index)
             ind == at + Len(texts[k])
             open == texts[k + 1] = <<>>
             nxt == IF open THEN None ELSE IndexFrom(s, texts[k + 1], ind)
             rest == unformat_loop(s, texts, k + 1, nxt)
         IN IF at = NotFound \/ (~open /\ nxt = NotFound) \/ rest.raised
            THEN [raised |-> TRUE, vals |-> <<>>]
            ELSE [raised |-> FALSE,
                  vals |-> <<SubSeq(s, ind + 1, IF open THEN Len(s) ELSE nxt)>> \o rest.vals]

unformat(s, texts) == unformat_loop(s, texts, 1, 0)

\* write_patchfile, patches.py:53-65: the text written to the file
PatchSchema_write_patchfile(patch) ==
    LET params == JoinBy([i \in 1..NUM_PARAMS |->
                             IntToStr(i - 1) \o <<",">> \o IntToStr(patch.params[i])],
                         param_delimiter)
    IN patch.patch_name \o file_layout_texts[2] \o patch.color
       \o file_layout_texts[3] \o patch.ver \o file_layout_texts[4] \o params

\* lst[i:i] = [x] for a position counted from 0
InsertAt(lst, i, x) == SubSeq(lst, 1, i) \o <<x>> \o SubSeq(lst, i + 1, Len(lst))

\* a variant of sanity_check that lowers the first two lines of the file
sanity_check_first_lines(file) ==
    LET lst == SplitBy(file, NL)
    IN IF Len(lst) >= 4
       THEN LET l1 == [lst EXCEPT ![1] = Lower(lst[1]), ![2] = Lower(lst[2])]
                l3 == IF l1[Len(l1)] = <<>> THEN SubSeq(l1, 1, Len(l1) - 1) ELSE l1
            IN [ok |-> TRUE, file |-> JoinBy(l3, <<NL>>)]
       ELSE [ok |-> FALSE, file |-> <<>>]

\* Synth1.sanity_check, synth1.py:92-115: the corrected text, or False
sanity_check(file) ==
    LET lst == SplitBy(file, NL)
    IN IF Len(lst) >= 4
       THEN LET color == Lower(lst[2])
                l1 == IF SubSeq(color, 1, 5) = COLOR
                      THEN [lst EXCEPT ![2] = color]
                      ELSE InsertAt(lst, 1, COLOR \o <<"=">> \o COLOR_DEF)
                ver == Lower(l1[3])
                l2 == IF SubSeq(ver, 1, 3) = VER
                      THEN [l1 EXCEPT ![3] = ver]
                      ELSE InsertAt(l1, 2, VER \o <<"=">> \o VER_DEF)
                l3 == IF l2[Len(l2)] = <<>> THEN SubSeq(l2, 1, Len(l2) - 1) ELSE l2
            IN [ok |-> TRUE, file |-> JoinBy(l3, <<NL>>)]
       ELSE [ok |-> FALSE, file |-> <<>>]

\* the loop of read_patchfile over the parameter lines, patches.py:102-108:
\* the list of values, or raised for any exception in it
RECURSIVE read_params(_, _)
read_params(raw_params, params) ==
    IF Len(raw_params) = 0 THEN [raised |-> FALSE, params |-> params]
    ELSE LET pdict == unformat(raw_params[1], param_layout_texts)
             ind == IF pdict.raised THEN [raised |-> TRUE, value |-> 0]
                    ELSE StrToInt(pdict.vals[1])
             value == IF pdict.raised THEN [raised |-> TRUE, value |-> 0]
                      ELSE StrToInt(pdict.vals[2])
             pos == IF ind.value >= 0 THEN ind.value + 1 ELSE ind.value + NUM_PARAMS + 1
         IN IF pdict.raised \/ ind.raised \/ value.raised \/ pos < 1 \/ pos > NUM_PARAMS
            THEN [raised |-> TRUE, params |-> params]
            ELSE read_params(Tail(raw_params), [params EXCEPT ![pos] = value.value])

\* read_patchfile, patches.py:92-123, of a file with the text `text` in the
\* directory `bank`: [ok, raised, patch]; ok is FALSE where False is returned
PatchSchema_read_patchfile(text, bank) ==
    LET patchfile == sanity_check(text)
        vals == unformat(patchfile.file, file_layout_texts)
        params == read_params(SplitBy(vals.vals[4], NL), [i \in 1..NUM_PARAMS |-> nan])
        none == [patch_name |-> <<>>, color |-> <<>>, ver |-> <<>>, params |-> <<>>,
                 bank |-> <<>>]
    IN IF ~patchfile.ok THEN [ok |-> FALSE, raised |-> FALSE, patch |-> none]
       ELSE IF vals.raised \/ params.raised THEN [ok |-> TRUE, raised |-> TRUE, patch |-> none]
       ELSE [ok |-> TRUE, raised |-> FALSE,
             patch |-> [patch_name |-> vals.vals[1], color |-> vals.vals[2],
                        ver |-> vals.vals[3], params |-> params.params, bank |-> bank]]

\* the records written: names as the first line of a file can hold them
\* (no line break), colours and versions as read_patchfile yields them, and
\* complete vectors of integer values
RecordNames ==
    { <<>>, <<"B", "a">>, <<"b", "L">>, COLOR, VER \o <<"=", "1">>, <<"1", ",", "2">> }
RecordColors == { <<"r", "e", "d">>, COLOR_DEF }
RecordVers == { VER_DEF, <<"1", "0", "0">> }
ParamValues == (0..MaxParamValue) \cup Range(PARAM_VALS)
Records ==
    [patch_name : RecordNames, color : RecordColors, ver : RecordVers,
     params : [1..NUM_PARAMS -> ParamValues], bank : {<<"X">>}]

InitPatchfile ==
    /\ db = EmptyDb
    /\ disk = NoDisk
    /\ app = InitApp
    /\ found = NoResult
    /\ steps = 0
    /\ \E patch \in Records : last = [Op("input", FALSE) EXCEPT !.arg = patch]

\* schema.write_patchfile(patch, path); schema.read_patchfile(path), where
\* path lies in a directory of another name than the bank of the patch
WriteThenRead ==
    /\ last.op = "input"
    /\ LET text == PatchSchema_write_patchfile(last.arg)
           read == PatchSchema_read_patchfile(text, <<"Y">>)
       IN last' = [Op("read_patchfile", read.raised \/ ~read.ok)
                      EXCEPT !.arg = last.arg, !.out = read.patch]
    /\ UNCHANGED <<db, disk, app, found, steps>>

NextPatchfile == WriteThenRead

SpecPatchfile == InitPatchfile /\ [][NextPatchfile]_vars

(***************************************************************************)
(* The container codec, preset2fxp.py.  A file is the sequence of its      *)
(* bytes, each in 0..255.  A preset is a record of kind "Preset" (with     *)
(* params) or "ChunkPreset" (with chunk); a field that is None holds None. *)
(* The floats of params are counted in quarters: q stands for q / 4.       *)
(***************************************************************************)
MaxFxpLen == 3

FXP_PREAMBEL_SIZE == 8
FXP_HEADER_SIZE == 56
FXP_FORMAT_VERSION == 1
CHUNK_MAGIC == <<67, 99, 110, 75>>
FX_MAGIC_PARAMS == <<70, 120, 67, 107>>
FX_MAGIC_CHUNK == <<70, 80, 67, 104>>
FX_DEFAULT_VERSION == 1
VST_ID == 1395742323

\* struct.pack('>i', n), a signed integer of 32 bits, the high byte first
PackInt(n) ==
    LET m == IF n >= 0 THEN n ELSE (n + 2147483647) + 1
        high == (m \div 16777216) + (IF n >= 0 THEN 0 ELSE 128)
    IN <<high, (m \div 65536) % 256, (m \div 256) % 256, m % 256>>

\* the non-negative integer four bytes hold, the high byte first
UnpackInt(b) == ((b[1] * 256 + b[2]) * 256 + b[3]) * 256 + b[4]

\* struct.pack('>f', q / 4) for the quarters of 0..1
PackFloat(q) ==
    CASE q = 0 -> <<0, 0, 0, 0>>
      [] q = 1 -> <<62, 128, 0, 0>>
      [] q = 2 -> <<63, 0, 0, 0>>
      [] q = 3 -> <<63, 64, 0, 0>>
      [] q = 4 -> <<63, 128, 0, 0>>

\* label.encode('latin1', errors='replace'): a character outside Latin-1
\* becomes '?'
Latin1(c) ==
    CASE c = "B" -> 66
      [] c = "a" -> 97
      [] OTHER -> 63

\* the 's' format of struct.pack with a count: cut or filled with zero bytes
PackBytes(count, bytes) ==
    [i \in 1..count |-> IF i <= Len(bytes) THEN bytes[i] ELSE 0]

RECURSIVE PackFloats(_)
PackFloats(params) ==
    IF params = <<>> THEN <<>> ELSE PackFloat(Head(params)) \o PackFloats(Tail(params))

\* calcsize('>{:d}f'.format(num_params)), preset2fxp.py:42-44
fxp_params_size(num_params) == FXP_HEADER_SIZE - FXP_PREAMBEL_SIZE + 4 * num_params

fxp_chunk_size_of_floats(preset, num_params) == fxp_params_size(num_params)

\* preset2fxp.py:53-56
fxp_chunk_size(preset, num_params) ==
    FXP_HEADER_SIZE - FXP_PREAMBEL_SIZE + Len(PackInt(Len(preset.chunk))) + Len(preset.chunk)

\* pack(FXP_HEADER_FMT, ...), preset2fxp.py:62-72
fxp_header(preset, size, fx_magic, num_params) ==
    CHUNK_MAGIC \o PackInt(size) \o fx_magic \o PackInt(FXP_FORMAT_VERSION)
        \o PackInt(preset.plugin_id)
        \o PackInt(IF preset.plugin_version # None THEN preset.plugin_version
                   ELSE FX_DEFAULT_VERSION)
        \o PackInt(num_params)
        \o PackBytes(28, [i \in 1..Len(preset.label) |-> Latin1(preset.label[i])])

\* write_fxp(preset, path): [raised, file], file the bytes of the file at
\* path afterwards.  open(path, 'wb') empties the file, the header is
\* written before the parameters are packed.
write_fxp(preset) ==
    IF preset.kind = "Preset"
    THEN LET num_params == IF preset.num_params = None THEN Len(preset.params)
                           ELSE preset.num_params
             header == fxp_header(preset, fxp_params_size(num_params),
                                  FX_MAGIC_PARAMS, num_params)
         IN IF Len(preset.params) # num_params
            THEN [raised |-> TRUE, file |-> header]
            ELSE [raised |-> FALSE, file |-> header \o PackFloats(preset.params)]
    ELSE IF preset.kind = "ChunkPreset"
    THEN LET num_params == IF preset.num_params = None THEN Len(preset.chunk) \div 4
                           ELSE preset.num_params
             header == fxp_header(preset, fxp_chunk_size(preset, num_params),
                                  FX_MAGIC_CHUNK, num_params)
         IN [raised |-> FALSE,
             file |-> header \o PackInt(Len(preset.chunk)) \o preset.chunk]
    ELSE [raised |-> TRUE, file |-> <<>>]

\* the presets written: labels short, of a character outside Latin-1 and
\* longer than the 28 bytes of the header field
FxpLabels == { <<>>, <<"B", "a">>, <<"U+266B">>, [i \in 1..30 |-> "a"] }
FxpNumParams == {None} \cup (0..MaxFxpLen)
FxpFloats == UNION {[1..n -> 0..4] : n \in 0..MaxFxpLen}
FxpChunks == UNION {[1..n -> {0, 1, 255}] : n \in 0..MaxFxpLen}
FxpPresets ==
    [kind : {"Preset"}, plugin_id : {VST_ID}, plugin_version : {None, 2},
     label : FxpLabels, num_params : FxpNumParams, params : FxpFloats, chunk : {<<>>}]
    \cup
    [kind : {"ChunkPreset"}, plugin_id : {VST_ID}, plugin_version : {None, 2},
     label : FxpLabels, num_params : FxpNumParams, params : {<<>>}, chunk : FxpChunks]
    \cup
    [kind : {"tuple"}, plugin_id : {VST_ID}, plugin_version : {None},
     label : {<<>>}, num_params : {None}, params : {<<>>}, chunk : {<<>>}]

InitFxp ==
    /\ db = EmptyDb
    /\ disk = NoDisk
    /\ app = InitApp
    /\ found = NoResult
    /\ steps = 0
    /\ \E preset \in FxpPresets : last = [Op("input", FALSE) EXCEPT !.arg = preset]

WriteFxp ==
    /\ last.op = "input"
    /\ last' = [Op("write_fxp", write_fxp(last.arg).raised)
                   EXCEPT !.arg = last.arg, !.out = write_fxp(last.arg).file]
    /\ UNCHANGED <<db, disk, app, found, steps>>

NextFxp == WriteFxp

SpecFxp == InitFxp /\ [][NextFxp]_vars

(***************************************************************************)
(* The chunk encoder, Synth1.make_fxp_chunk of synth1.py and the function  *)
(* make_fxp_chunk of sy2fxpreset.py that PatchDatabase.write_patch calls.  *)
(* The vector of parameters has its 99 places, the chunk is the sequence   *)
(* of its bytes.  Positions of bytes and of parameters count from 0 as in  *)
(* the code, the sequences of the model from 1.                             *)
(***************************************************************************)
MaxChunkValue == 127

S1_NUM_PARAMS == 99
S1_CHUNK_NAME ==
    <<83, 121, 110, 116, 104, 49, 32, 86, 83, 84, 32, 67, 104, 117, 110, 107, 32,
      68, 97, 116, 97>>
\* self.params.index(s) for s in S1_IGNORE_PARAMS
S1_IGNORE_PARAMS == {86, 87, 88, 89}
S1_IGNORED_FILLER ==
    <<0, 0, 0, 1, 0, 0, 0, 1, 176, 0, 0, 1, 0, 0, 0, 44,
      0, 0, 0, 1, 0, 0, 0, 1, 176, 0, 0, 1, 0, 0, 0, 43>>
S1_IGNORED_OFFSET == 684

\* the 'x' format of struct.pack with a count
Zeros(count) == [i \in 1..count |-> 0]

\* the 'B' format of struct.pack takes 0..255
IsUByte(n) == n \in 0..255

\* pack(*s1_chunk_header(ver)), '>21s11xB527xB4xB2xB'
s1_chunk_header(ver) ==
    PackBytes(21, S1_CHUNK_NAME) \o Zeros(11) \o <<2>> \o Zeros(527) \o <<ver>>
        \o Zeros(4) \o <<1>> \o Zeros(2) \o <<1>>

\* pack(*s1_chunk_footer(ver)), '>1207xB3xB3xB7xB15xB3xB19x'
s1_chunk_footer(ver) ==
    Zeros(1207) \o <<1>> \o Zeros(3) \o <<ver>> \o Zeros(3) \o <<1>> \o Zeros(7)
        \o <<1>> \o Zeros(15) \o <<1>> \o Zeros(3) \o <<64>> \o Zeros(19)

\* np.delete(arr, obj): arr without the places of obj, here the places
\* lo..hi of arr taken half by half
RECURSIVE np_delete_from(_, _, _, _)
np_delete_from(arr, obj, lo, hi) ==
    IF lo > hi THEN <<>>
    ELSE IF lo = hi THEN (IF (lo - 1) \in obj THEN <<>> ELSE <<arr[lo]>>)
    ELSE np_delete_from(arr, obj, lo, (lo + hi) \div 2)
             \o np_delete_from(arr, obj, (lo + hi) \div 2 + 1, hi)

np_delete(arr, obj) == np_delete_from(arr, obj, 1, Len(arr))

\* a packer that writes a small value in one byte
pack_int_compact(x) == IF x \in 0..255 THEN <<x>> ELSE PackInt(x)

\* Packer.pack_int of xdrlib: four bytes for every value
pack_int(x) == PackInt(x)

\* Packer.pack_list(list, pack_int) of xdrlib: 1 and the item for every
\* item, then 0
RECURSIVE pack_list(_)
pack_list(list) ==
    IF list = <<>> THEN PackInt(0)
    ELSE PackInt(1) \o pack_int(Head(list)) \o pack_list(Tail(list))

\* buf[i:i] = filler; a position beyond the buffer is its end
InsertBytes(buf, i, filler) ==
    LET at == IF i < Len(buf) THEN i ELSE Len(buf)
    IN SubSeq(buf, 1, at) \o filler \o SubSeq(buf, at + 1, Len(buf))

\* buf[i:j] = buf[j - 1:i - 1:-1] for i < j within the buffer: the bytes of
\* i..j-1 in the opposite order.  A slice that ends beyond the buffer is
\* cut, as Python cuts it.
ReverseBytes(buf, i, j) ==
    LET hi == IF j < Len(buf) THEN j ELSE Len(buf)
    IN IF i >= hi THEN buf
       ELSE [k \in 1..Len(buf) |-> IF k > i /\ k <= hi THEN buf[i + hi + 1 - k] ELSE buf[k]]

\* the list of the parameters as the chunk holds it, synth1.py:126-145 and
\* sy2fxpreset.py:55-73: without the first flag of the packer, the filler
\* spliced in
s1_list_buf(params) ==
    LET parms == np_delete(params, S1_IGNORE_PARAMS)
        list_buf == pack_list(parms)
    IN InsertBytes(SubSeq(list_buf, 5, Len(list_buf)), S1_IGNORED_OFFSET, S1_IGNORED_FILLER)

\* Synth1.make_fxp_chunk(patch), synth1.py:117-159: [raised, chunk]
Synth1_make_fxp_chunk(patch) ==
    LET ver == StrToInt(patch.ver)
    IN IF ver.raised \/ Len(patch.params) # S1_NUM_PARAMS \/ ~IsUByte(ver.value)
       THEN [raised |-> TRUE, chunk |-> <<>>]
       ELSE [raised |-> FALSE,
             chunk |-> s1_chunk_header(ver.value)
                       \o ReverseBytes(s1_list_buf(patch.params), 72, 79)
                       \o s1_chunk_footer(ver.value)]

\* make_fxp_chunk(params, ver), sy2fxpreset.py:38-83: [raised, chunk]
make_fxp_chunk(params, ver) ==
    IF Len(params) # S1_NUM_PARAMS \/ ~IsUByte(ver)
    THEN [raised |-> TRUE, chunk |-> <<>>]
    ELSE [raised |-> FALSE,
          chunk |-> s1_chunk_header(ver) \o s1_list_buf(params) \o s1_chunk_footer(ver)]

\* the vectors encoded: place i holds i, but for the first place, the key
\* shift, the places next to the ignored ones, an ignored one and the last,
\* which take the values of ChunkValues; and two vectors of another length
ChunkValues == {0 - 1, 0, MaxChunkValue}
ChunkPlaces == {1, 10, 86, 87, 91, 99}
ChunkVectors ==
    { [i \in 1..S1_NUM_PARAMS |-> IF i \in ChunkPlaces THEN f[i] ELSE i] :
          f \in [ChunkPlaces -> ChunkValues] }
    \cup { [i \in 1..(S1_NUM_PARAMS - 1) |-> i], [i \in 1..(S1_NUM_PARAMS + 1) |-> i] }
ChunkPatches == [ver : RecordVers, params : ChunkVectors]

InitChunk ==
    /\ db = EmptyDb
    /\ disk = NoDisk
    /\ app = InitApp
    /\ found = NoResult
    /\ steps = 0
    /\ \E patch \in ChunkPatches : last = [Op("input", FALSE) EXCEPT !.arg = patch]

\* Synth1.make_fxp_chunk(patch)
MakeFxpChunk ==
    /\ last.op = "input"
    /\ LET r == Synth1_make_fxp_chunk(last.arg)
       IN last' = [Op("Synth1.make_fxp_chunk", r.raised)
                      EXCEPT !.arg = last.arg, !.out = r.chunk]
    /\ UNCHANGED <<db, disk, app, found, steps>>

\* make_fxp_chunk(params, int(patch['ver'])), data.py:270-271
MakeFxpChunkOfParams ==
    /\ last.op = "input"
    /\ LET ver == StrToInt(last.arg.ver)
           r == IF ver.raised THEN [raised |-> TRUE, chunk |-> <<>>]
                ELSE make_fxp_chunk(last.arg.params, ver.value)
       IN last' = [Op("make_fxp_chunk", r.raised)
                      EXCEPT !.arg = last.arg, !.out = r.chunk]
    /\ UNCHANGED <<db, disk, app, found, steps>>

NextChunk ==
    \/ MakeFxpChunk
    \/ MakeFxpChunkOfParams

SpecChunk == InitChunk /\ [][NextChunk]_vars

(***************************************************************************)
(* The window, gui.py:93-498, from the start of the program,               *)
(* src/__init__.py: root = Tk(); AppGui(root); root.mainloop().  AppGui is *)
(* the controller with its widgets: the record of the controller gets the  *)
(* fields                                                                  *)
(*   busy       wait() was called last (cursor 'watch', the widgets of     *)
(*              busy_wids disabled), not unwait()                          *)
(*   stack      the calls in flight, the innermost last: the construction  *)
(*              and the handlers, each standing in the master.update() of  *)
(*              a wait(), gui.py:338-344, where Tk dispatches the events   *)
(*              that are pending                                           *)
(*   kids       the rows of the patch list, selection the selected row     *)
(*   alive      the process runs                                           *)
(* AppGui.__init__ builds the widgets and the menus, shows the window      *)
(* (gui.py:295) and calls App.__init__ (gui.py:296), whose first statement *)
(* is status(STATUS_OPEN) (app.py:93): wait() and its update().  Tk runs a *)
(* handler when its event is dispatched, here in the update() of the       *)
(* construction or of a handler in flight.  The controller's database is   *)
(* assigned at app.py:99, after that update(): a handler dispatched before *)
(* reads self.__db, which the object does not have yet (AttributeError).   *)
(* An exception that leaves a handler goes to exc, gui.py:308-313.  The    *)
(* name and similarity tagging of the Edit menu, the import and the exit   *)
(* of the File menu and the keyword, tag and bank searches are modelled;   *)
(* the patch list gets no row before a search has returned, so it has no   *)
(* selection to change.                                                    *)
(***************************************************************************)
MaxGuiSteps == 3

Frame(op, pc, order, rules, q) ==
    [op |-> op, pc |-> pc, order |-> order, rules |-> rules, q |-> q]

\* the process before main() of src/__init__.py
StartGuiApp ==
    [modified_db |-> FALSE, last_query |-> NoQuery,
     last_result |-> [present |-> FALSE, rows |-> <<>>],
     active_patch |-> -1, tags |-> <<>>, banks |-> <<>>, constructed |-> FALSE,
     busy |-> FALSE, stack |-> <<>>,
     kids |-> {}, selection |-> -1, alive |-> TRUE]

\* the program is started
InitGui ==
    /\ db = EmptyDb
    /\ app = StartGuiApp
    /\ disk \in {NoDataFile, DataFile, NoDisk}
    /\ found = NoResult
    /\ last = Op("init", FALSE)
    /\ steps = 0

\* an event can be dispatched: mainloop runs (the construction has
\* returned), or the update() of a call in flight
Dispatching(a) ==
    /\ a.alive
    /\ a.constructed \/ Len(a.stack) > 0

\* one more event of the user, while the run may go on
GuiStep ==
    /\ steps < MaxGuiSteps
    /\ steps' = steps + 1

Push(a, frame) == [a EXCEPT !.stack = Append(@, frame)]
Pop(a) == [a EXCEPT !.stack = SubSeq(@, 1, Len(@) - 1)]
AtPc(a, pc) == [a EXCEPT !.stack[Len(a.stack)].pc = pc]

\* wait() and unwait(), gui.py:338-350
wait(a) == [a EXCEPT !.busy = TRUE]
unwait(a) == [a EXCEPT !.busy = FALSE]

\* exc, gui.py:308-313, for an exception that leaves the innermost handler:
\* status(STATUS_READY), and the handler is over
exc(a) == Pop(unwait(a))

\* self.__db is read before app.py:99 has assigned it
no_db(a) == ~a.constructed

\* the handler in flight goes on after the update() of status(STATUS_SEARCH),
\* app.py:44-55, up to the unwait() of the searcher: [raised, app]
gui_search(a, d, q) ==
    LET \* empty_patches, gui.py:356-362, with update_active_patch
        a1 == IF a.kids # {} THEN [a EXCEPT !.active_patch = a.selection] ELSE a
        a2 == [a1 EXCEPT !.kids = {}, !.selection = -1, !.last_query = q]
    IN IF a.kids # {} /\ get_meta_raises(a1) THEN [raised |-> TRUE, app |-> a1]
       ELSE IF no_db(a) THEN [raised |-> TRUE, app |-> a2]
       ELSE IF run_search(d, q).raised THEN [raised |-> TRUE, app |-> a2]
       ELSE [raised |-> FALSE,
             app |-> unwait([a2 EXCEPT
                         !.last_result = [present |-> TRUE, rows |-> run_search(d, q).rows],
                         !.kids = Labels(run_search(d, q).rows)])]

\* self.refresh() of volatile, app.py:65, is AppGui.refresh, gui.py:439-448:
\* super().refresh() raises (app.py:167) before the lists of the window are
\* set, and the exception leaves the handler
gui_refresh(a, d) ==
    IF app_refresh(a, d).raised THEN exc(app_refresh(a, d).app)
    ELSE Pop([app_refresh(a, d).app EXCEPT !.modified_db = TRUE])

\* the handler in flight, standing at pc, runs on to its next update() or to
\* its end: [app, db]
gui_return(a, d, outcome, predictions, setitem) ==
    LET f == a.stack[Len(a.stack)]
    IN CASE f.pc = "search" ->
              [app |-> IF gui_search(a, d, f.q).raised THEN exc(gui_search(a, d, f.q).app)
                       ELSE Pop(gui_search(a, d, f.q).app),
               db |-> d]
         [] f.pc # "search" /\ no_db(a) -> [app |-> exc(a), db |-> d]
         [] f.pc = "import" /\ ~no_db(a) ->
              [app |-> gui_refresh(a, new_database(d, f.order).db),
               db |-> new_database(d, f.order).db]
         [] f.pc = "name_tag" /\ ~no_db(a) ->
              IF tags_from_val_defs(d, f.rules, setitem).raised
              THEN [app |-> exc(a), db |-> tags_from_val_defs(d, f.rules, setitem).db]
              ELSE [app |-> gui_refresh(a, tags_from_val_defs(d, f.rules, setitem).db),
                    db |-> tags_from_val_defs(d, f.rules, setitem).db]
         [] f.pc = "train" /\ ~no_db(a) ->
              IF train_classifier(d, outcome).raised
              THEN [app |-> exc(a), db |-> train_classifier(d, outcome).db]
              ELSE [app |-> AtPc(wait(a), "classify"), db |-> train_classifier(d, outcome).db]
         [] f.pc = "classify" /\ ~no_db(a) ->
              IF classify_tags(d, predictions).raised
              THEN [app |-> exc(a), db |-> classify_tags(d, predictions).db]
              ELSE [app |-> gui_refresh(a, classify_tags(d, predictions).db),
                    db |-> classify_tags(d, predictions).db]

\* main() of src/__init__.py: the import of src.gui, which imports src.app
\* (gui.py:9), and AppGui(root) up to the update() of status(STATUS_OPEN),
\* gui.py:107-296 and app.py:93.  An exception of the import ends the
\* process before a window exists.
GuiMain ==
    \E outcome \in ImportOutcomes :
        /\ last.op = "init"
        /\ app' = IF outcome # "imported" THEN [app EXCEPT !.alive = FALSE]
                  ELSE Push(wait(app), Frame("init", "open", <<>>, <<>>, NoQuery))
        /\ last' = [Op("main", outcome # "imported") EXCEPT !.signal = outcome]
        /\ UNCHANGED <<db, disk, found, steps>>

\* the schema of the window, gui.py:111
GuiSchema == [kind |-> "Synth1", order |-> <<>>]

\* App.__init__ goes on after its first update(), with the schema of
\* gui.py:111, app.py:95-103.  An exception leaves AppGui(root) and main():
\* it is raised in no callback, so exc does not see it, mainloop is never
\* entered and the process ends.
GuiConstruct ==
    \E err \in OpenErrors :
    \E r \in {app_init(app, disk, GuiSchema, err)} :
        /\ app.alive
        /\ Len(app.stack) > 0
        /\ app.stack[Len(app.stack)].op = "init"
        /\ app' = IF r.raised THEN [r.app EXCEPT !.alive = FALSE] ELSE Pop(unwait(r.app))
        /\ db' = r.db
        /\ last' = [Op("__init__", r.raised) EXCEPT !.signal = r.signal]
        /\ UNCHANGED <<disk, found, steps>>

\* File > Create new database..., gui.py:485-491 and app.py:225-230, up to
\* the update() of status(STATUS_IMPORT)
GuiNewDatabase ==
    \E order \in {<<1, 3>>, <<2>>} :
        /\ Dispatching(app)
        /\ GuiStep
        /\ app' = Push(wait(app), Frame("new_database", "import", order, <<>>, NoQuery))
        /\ last' = Op("new_database", FALSE)
        /\ UNCHANGED <<db, disk, found>>

\* Edit > Run name-based tagging..., app.py:174-180, up to the update() of
\* status(STATUS_NAME_TAG)
GuiTagNames ==
    \E re_defs \in RuleSets :
        /\ Dispatching(app)
        /\ GuiStep
        /\ app' = Push(wait(app), Frame("tag_names", "name_tag", <<>>, re_defs, NoQuery))
        /\ last' = Op("tag_names", FALSE)
        /\ UNCHANGED <<db, disk, found>>

\* Edit > Run parameter-based tagging..., app.py:191-201, up to the update()
\* of status(STATUS_WAIT)
GuiTagSimilar ==
    /\ Dispatching(app)
    /\ GuiStep
    /\ app' = Push(wait(app), Frame("tag_similar", "train", <<>>, <<>>, NoQuery))
    /\ last' = Op("tag_similar", FALSE)
    /\ UNCHANGED <<db, disk, found>>

\* the Search button and the return key of the keyword box, gui.py:466-478.
\* The button is in busy_wids, and a disabled button takes no click.  The key
\* is bound on the box (gui.py:165): disabling the box leaves the binding,
\* and the key reaches the handler while the box holds the focus, busy or
\* not.  An empty query starts no search, app.py:42
SearchEvents == {"button", "key"}

GuiSearchByKwd ==
    \E event \in SearchEvents : \E kwd \in {<<>>, <<"b">>, <<"l">>} :
        /\ Dispatching(app)
        /\ event = "button" => ~app.busy
        /\ GuiStep
        /\ app' = IF Len(kwd) = 0 THEN app
                  ELSE Push(wait(app), Frame("keyword_search", "search", <<>>, <<>>,
                                             Query("keyword_search", <<>>, kwd)))
        /\ last' = [Op("keyword_search", FALSE) EXCEPT !.arg = kwd]
        /\ UNCHANGED <<db, disk, found>>

\* a click in the tags list, gui.py:450-456; the list is in busy_wids, and Tk
\* sends <<ListboxSelect>> for a click in a list that is not disabled, also
\* when nothing gets selected (gui.py:76-77).  App has no search_by_tags
\* (its search is tag_search, app.py:146), so the call fails with
\* AttributeError, which goes to exc
GuiSearchByTags ==
    /\ Dispatching(app)
    /\ ~app.busy
    /\ GuiStep
    /\ app' = unwait(app)
    /\ last' = Op("search_by_tags", TRUE)
    /\ UNCHANGED <<db, disk, found>>

\* a click in the banks list, gui.py:458-464: App has no search_by_bank
GuiSearchByBank ==
    /\ Dispatching(app)
    /\ ~app.busy
    /\ GuiStep
    /\ app' = unwait(app)
    /\ last' = Op("search_by_bank", TRUE)
    /\ UNCHANGED <<db, disk, found>>

\* AppGui.end, gui.py:493-498, with App.end, app.py:312-320: [raised, app,
\* disk].  The window is withdrawn, and App.end reads self.__config, which
\* the object has from app.py:100 on: before, the AttributeError goes to exc
\* and destroy() is not reached.  With auto_save of the configuration the
\* database is saved; an exception of to_disk goes to exc as well.  destroy()
\* ends mainloop and with it the process.
gui_end(a, d, dk, auto_save) ==
    LET save == auto_save /\ is_active(d) /\ a.modified_db
    IN IF no_db(a) THEN [raised |-> TRUE, app |-> unwait(a), disk |-> dk]
       ELSE IF save /\ to_disk(d, dk).raised
       THEN [raised |-> TRUE, app |-> unwait(a), disk |-> to_disk(d, dk).disk]
       ELSE [raised |-> FALSE,
             app |-> [a EXCEPT !.alive = FALSE,
                               !.modified_db = IF save THEN FALSE ELSE @],
             disk |-> IF save THEN to_disk(d, dk).disk ELSE dk]

\* File > Exit (gui.py:132) and the close button of the window (gui.py:116):
\* neither is in busy_wids
GuiEnd ==
    \E auto_save \in BOOLEAN :
        /\ Dispatching(app)
        /\ GuiStep
        /\ app' = gui_end(app, db, disk, auto_save).app
        /\ disk' = gui_end(app, db, disk, auto_save).disk
        /\ last' = Op("end", gui_end(app, db, disk, auto_save).raised)
        /\ UNCHANGED <<db, found>>

\* the record of a handler running on: the depth of the calls in flight and
\* the place the innermost one stood at.  A handler that runs on leaves its
\* place or ends, so no two steps of GuiReturn in a row leave the same
\* record.
Returned(a) ==
    [Op("return", FALSE) EXCEPT !.index = Len(a.stack), !.signal = a.stack[Len(a.stack)].pc]

\* update() returns to the handler in flight, which runs on
GuiReturn ==
    /\ app.alive
    /\ Len(app.stack) > 0
    /\ app.stack[Len(app.stack)].op # "init"
    /\ \E outcome \in FitOutcomes : \E predictions \in Predictions(db) :
       \E setitem \in SetItemOutcomes :
           /\ app' = gui_return(app, db, outcome, predictions, setitem).app
           /\ db' = gui_return(app, db, outcome, predictions, setitem).db
    /\ last' = Returned(app)
    /\ UNCHANGED <<disk, found, steps>>

NextGui ==
    \/ GuiMain
    \/ GuiConstruct
    \/ GuiNewDatabase
    \/ GuiTagNames
    \/ GuiTagSimilar
    \/ GuiSearchByKwd
    \/ GuiSearchByTags
    \/ GuiSearchByBank
    \/ GuiEnd
    \/ GuiReturn

SpecGui == InitGui /\ [][NextGui]_vars

\* the steps of GuiReturn, told by the record they leave: no other action
\* of the window leaves a record of a return, and GuiReturn is enabled
\* whenever a handler is in flight
HandlerRunsOn ==
    /\ app.alive
    /\ Len(app.stack) > 0
    /\ app.stack[Len(app.stack)].op # "init"
    /\ last' = Returned(app)

\* The process runs: main() is entered, update() returns once the pending
\* events are handled, and the code of a handler and of the construction
\* runs to its next call.  The steps of a handler are GuiReturn's, named by
\* HandlerRunsOn.
SpecGuiFair ==
    SpecGui /\ WF_vars(GuiMain) /\ WF_last(HandlerRunsOn) /\ WF_vars(GuiConstruct)

(***************************************************************************)
(* What the claims speak of.                                               *)
(***************************************************************************)
\* the set of tags a patch holds, read off its tags text
TagSet(text) == Range(Split(text)) \ {<<>>}

\* text contains pattern, letters compared without regard to case
MatchesIgnoringCase(pattern, text) ==
    \E o \in 0..(Len(text) - Len(pattern)) :
        \A j \in 1..Len(pattern) : LowerChar(text[o + j]) = LowerChar(pattern[j])

\* classify_tags would fail on d, whatever predict returned
ClassifyFails(d) == \A p \in Predictions(d) : classify_tags(d, p).raised

(***************************************************************************)
(* C1.  save is a no-op unless the database was modified since the last    *)
(* save: a to_disk that directly follows a to_disk, or a load, on the same  *)
(* object writes nothing.                                                  *)
(***************************************************************************)
C1_SaveNoOpUnlessModified ==
    [][(/\ last'.op = "to_disk"
        /\ last.op \in {"to_disk", "from_disk"}
        /\ ~last.raised)
       => ~last'.wrote]_vars

C3_NoEmptyTagColumn ==
    /\ \A k \in 1..Len(db.tagsdf.columns) :
           \E i \in 1..Len(db.tagsdf.rows) : db.tagsdf.rows[i][k] = 1
    /\ \A t \in Range(db.tagsdf.columns) \cup Range(db.tags) :
           \E i \in 1..Len(db.df) : t \in TagSet(db.df[i].tags)

\* a table loaded from disk with two tag columns and a patch that holds one
C3_Witness ==
    /\ last.op = "from_disk"
    /\ ~last.raised
    /\ Len(db.tagsdf.columns) >= 2
    /\ \E i \in 1..Len(db.df) : Cardinality(TagSet(db.df[i].tags)) = 1

(***************************************************************************)
(* C4.  For a non-empty list of tags that patches of the database hold,    *)
(* find_patches_by_tags returns exactly the patches whose tag set includes *)
(* every tag of the list.                                                  *)
(***************************************************************************)
C4_FindByTagsIsSuperset ==
    (/\ last.op = "find_patches_by_tags"
     /\ Len(last.tags) > 0
     /\ \A t \in Range(last.tags) : \E i \in 1..Len(db.df) : t \in TagSet(db.df[i].tags))
    => /\ ~found.raised
       /\ Labels(found.rows) =
              {db.df[i].label : i \in {j \in 1..Len(db.df) :
                                          Range(last.tags) \subseteq TagSet(db.df[j].tags)}}
       /\ Len(found.rows) = Cardinality(Labels(found.rows))

\* a search for two tags that some, not all, patches hold
C4_Witness ==
    /\ last.op = "find_patches_by_tags"
    /\ Len(last.tags) = 2
    /\ ~found.raised
    /\ Len(found.rows) > 0
    /\ Len(found.rows) < Len(db.df)

(***************************************************************************)
(* C5.  find_patches_by_tags([]) does not fail and returns all patches.    *)
(***************************************************************************)
C5_FindByNoTagsIsAll ==
    (last.op = "find_patches_by_tags" /\ Len(last.tags) = 0 /\ db.active)
    => /\ ~found.raised
       /\ Labels(found.rows) = {db.df[i].label : i \in 1..Len(db.df)}

(***************************************************************************)
(* C6.  classify_tags without a classifier fails and changes nothing: the  *)
(* rows, their tags, the tag table and the modified flag stay as they were. *)
(***************************************************************************)
C6_ClassifyBeforeTrainNoEffect ==
    [][(last'.op = "classify_tags" /\ ~db.knn.present)
       => (last'.raised /\ db' = db /\ disk' = disk)]_vars

\* a failed classify_tags on a loaded, unmodified database
C6_Witness ==
    /\ last.op = "classify_tags"
    /\ last.raised
    /\ db.active
    /\ ~db.knn.present
    /\ ~db.modified_db

(***************************************************************************)
(* C7.  train_classifier on a database without a tagged patch fails and    *)
(* leaves the classifier as it was; where none was present none is present *)
(* after it, the classifier flag is unset and classify_tags still fails.   *)
(***************************************************************************)
C7_TrainWithoutTagsFails ==
    [][(last'.op = "train_classifier" /\ db.active /\ Tagged(db.df) = {})
       => /\ last'.raised
          /\ db' = db
          /\ ~db.knn.present =>
                (~db'.knn.present /\ ~db'.modified_cls /\ ClassifyFails(db'))]_vars

\* a failed train_classifier on an untagged database without a classifier
C7_Witness ==
    /\ last.op = "train_classifier"
    /\ last.raised
    /\ db.active
    /\ Tagged(db.df) = {}
    /\ ~db.knn.present

(***************************************************************************)
(* C8.  After a load from disk or a bootstrap no trained model is present, *)
(* also when a classifier was trained and the database saved before.       *)
(***************************************************************************)
C8_NoClassifierAfterReload ==
    (last.op \in {"from_disk", "bootstrap"} /\ ~last.raised) => ~db.knn.present

(***************************************************************************)
(* C9.  After change_tags(index, tags, replace) the patch at index holds   *)
(* exactly tags (replace) or its previous tags and tags (not replace), and *)
(* the tags of the other patches are unchanged.                            *)
(***************************************************************************)
C9_ChangeTagsSetsTags ==
    [][(last'.op = "change_tags" /\ ~last'.raised)
       => /\ Len(db'.df) = Len(db.df)
          /\ \A i \in 1..Len(db.df) :
                IF i = Position(db.df, last'.index)
                THEN TagSet(db'.df[i].tags) =
                         (IF last'.replace THEN {} ELSE TagSet(db.df[i].tags))
                             \cup Range(last'.tags)
                ELSE db'.df[i].tags = db.df[i].tags]_vars

C11_ClassifyOnlyAdds ==
    [][(last'.op = "classify_tags" /\ ~last'.raised)
       => /\ Len(db'.df) = Len(db.df)
          /\ \A i \in 1..Len(db.df) :
                /\ db'.df[i].label = db.df[i].label
                /\ TagSet(db.df[i].tags) \subseteq TagSet(db'.df[i].tags)]_vars

\* a classify_tags that gave a patch holding two tags a third one, which no
\* rule gives it
C11_Witness ==
    /\ last.op = "classify_tags"
    /\ ~last.raised
    /\ \E i \in 1..Len(db.df) :
           /\ db.df[i].patch_name = <<"B", "a">>
           /\ TagSet(db.df[i].tags) = {TagA, Tagb, TagL}

\* the tags a tags text lists, in order; none for the empty text
TagList(text) == IF Len(text) = 0 THEN <<>> ELSE Split(text)

\* a list without a repeated element
NoRepeat(l) == \A i, j \in 1..Len(l) : l[i] = l[j] => i = j

(***************************************************************************)
(* C12.  encode_tags(tags, old_tags) is old_tags followed by the elements  *)
(* of tags that old_tags does not list, in their order, joined by '|'      *)
(* without a leading, trailing or doubled separator; for arguments without *)
(* repetitions no tag is listed twice.                                     *)
(***************************************************************************)
C12_EncodeTagsAppendsNew ==
    (last.op = "encode_tags")
    => LET old == TagList(last.arg)
           out == TagList(last.out)
           new == {i \in 1..Len(last.tags) : last.tags[i] \notin Range(old)}
       IN /\ SubSeq(last.out, 1, Len(last.arg)) = last.arg
          /\ Len(out) = Len(old) + Cardinality(new)
          /\ \A k \in 1..Len(old) : out[k] = old[k]
          /\ \A k \in 1..Cardinality(new) :
                out[Len(old) + k] = last.tags[Ascending(new)[k]]
          /\ \A k \in 1..Len(out) : Len(out[k]) > 0
          /\ (NoRepeat(old) /\ NoRepeat(last.tags)) => NoRepeat(out)

\* encode_tags(['Ab', 'A'], 'A|b') = 'A|b|Ab'
C12_Witness ==
    /\ last.op = "encode_tags"
    /\ last.tags = << <<"A", "b">>, <<"A">> >>
    /\ last.arg = <<"A", "|", "b">>
    /\ last.out = <<"A", "|", "b", "|", "A", "b">>

\* a native file that parses: a file named as a patch file whose lines are
\* the name, the two metadata and parameters of the schema
WellFormed(f) ==
    /\ File(f).patch_file
    /\ Len(File(f).lines) >= 4
    /\ File(f).lines[1].kind = "text"
    /\ File(f).lines[2].kind = "meta"
    /\ File(f).lines[3].kind = "meta"
    /\ \A i \in 4..Len(File(f).lines) :
           /\ File(f).lines[i].kind = "param"
           /\ \E k \in 1..NUM_PARAMS : PARAM_INDEX[k] = File(f).lines[i].index

(***************************************************************************)
(* C13.  bootstrap over a directory yields a database with exactly one     *)
(* patch per native file that parses, all without tags: a file that does   *)
(* not parse is skipped and does not keep the others from being imported.  *)
(***************************************************************************)
C13_BootstrapSkipsMalformed ==
    (last.op = "bootstrap" /\ last.arg.exists
        /\ \E i \in 1..Len(last.arg.order) : WellFormed(last.arg.order[i]))
    => /\ ~last.raised
       /\ Len(db.df) = Cardinality({f \in Range(last.arg.order) : WellFormed(f)})
       /\ \A i \in 1..Len(db.df) : db.df[i].tags = <<>>

(***************************************************************************)
(* C14.  bootstrap signals failure when the root is absent or no file      *)
(* under it parses, and then the database held before is left as it was.   *)
(***************************************************************************)
C14_BootstrapFailureKeepsDatabase ==
    [][(/\ last'.op = "bootstrap"
        /\ \A i \in 1..Len(last'.arg.order) : ~WellFormed(last'.arg.order[i]))
       => (last'.raised /\ db' = db)]_vars

(***************************************************************************)
(* C19.  Every patch of the database has as many parameter values as the   *)
(* schema has parameters, each between 0 and the declared maximum of its   *)
(* parameter, patches of default values included.                          *)
(***************************************************************************)
C19_ParamsInRange ==
    \A i \in 1..Len(db.df) :
        /\ Len(db.df[i].params) = NUM_PARAMS
        /\ \A k \in 1..NUM_PARAMS :
               db.df[i].params[k] >= 0 /\ db.df[i].params[k] <= PARAM_RANGE[k]

(***************************************************************************)
(* C20.  Whatever the order in which the pool hands back the files,        *)
(* bootstrap gives the same patches, one per file read, each with the      *)
(* metadata and the parameter values of one and the same file.             *)
(***************************************************************************)
C20_BootstrapOrderIrrelevant ==
    (last.op = "bootstrap")
    => LET files == Range(PatchFiles(last.arg))
       IN /\ last.raised = (\E f \in files : read_patchfile(f).raised)
          /\ ~last.raised =>
                /\ Len(db.df) = Cardinality(files)
                /\ \A f \in files :
                      \E i \in 1..Len(db.df) :
                          /\ db.df[i].bank = File(f).bank
                          /\ db.df[i].patch_name = PatchName(File(f).lines)
                          /\ db.df[i].params = fillna(read_patchfile(f).params)

\* two files with different parameter values, handed back last file first
C20_Witness ==
    /\ last.op = "bootstrap"
    /\ ~last.raised
    /\ last.arg.order = <<3, 1>>
    /\ Len(db.df) = 2
    /\ db.df[1].params # db.df[2].params

(***************************************************************************)
(* C15.  The patch table and the tag table are saved and loaded as one     *)
(* unit: from_disk right after a to_disk that wrote gives the two tables   *)
(* the database had at the save, and the loaded database is not modified.  *)
(***************************************************************************)
C15_SaveLoadRoundTrip ==
    [][(/\ last.op = "to_disk" /\ last.wrote
        /\ last'.op = "from_disk")
       => /\ ~last'.raised
          /\ db'.active
          /\ db'.df = db.df
          /\ db'.tagsdf = db.tagsdf
          /\ db'.tags = db.tags
          /\ ~db'.modified_db]_vars

C17_RowIdentifierIsStable ==
    (last.op = "get_patch_by_index"
     /\ \E i \in 1..Len(db.df) : db.df[i].label = last.index)
        => /\ ~last.raised
           /\ \E j \in 1..Len(found.rows) :
                  /\ found.rows[j].label = last.index
                  /\ found.rows[j].bank = last.out.bank
                  /\ found.rows[j].patch_name = last.out.patch_name

\* the identifier is handed back after tag changes alone, and designates the
\* patch the result listed
C17_Witness ==
    /\ last.op = "get_patch_by_index"
    /\ ~last.raised
    /\ \E j \in 1..Len(found.rows) :
           /\ found.rows[j].label = last.index
           /\ found.rows[j].patch_name = last.out.patch_name
           /\ found.rows[j].tags # last.out.tags

\* C18: reading the file write_patchfile wrote for a record yields the
\* record's name, its colour and version, and its parameter vector.
C18_WriteReadRoundTrip ==
    last.op = "read_patchfile"
        => /\ ~last.raised
           /\ last.out.patch_name = last.arg.patch_name
           /\ last.out.color = last.arg.color
           /\ last.out.ver = last.arg.ver
           /\ last.out.params = last.arg.params

\* a record with capitals in its name and a value of more than one digit has
\* been written and read back
C18_Witness ==
    /\ last.op = "read_patchfile"
    /\ ~last.raised
    /\ Lower(last.arg.patch_name) # last.arg.patch_name
    /\ \E i \in 1..NUM_PARAMS : last.arg.params[i] >= 10 /\ last.out.params[i] = last.arg.params[i]

(***************************************************************************)
(* C23.  The tag table has one row per patch, in the order of the patches, *)
(* and row i marks tag t exactly when patch i holds t.                     *)
(***************************************************************************)
C23_TagTableMatchesPatches ==
    db.active =>
        /\ Len(db.tagsdf.rows) = Len(db.df)
        /\ \A i \in 1..Len(db.df) :
               /\ Len(db.tagsdf.rows[i]) = Len(db.tagsdf.columns)
               /\ \A t \in TagNames \cup Range(db.tagsdf.columns) :
                      (t \in TagSet(db.df[i].tags))
                          <=> \E k \in 1..Len(db.tagsdf.columns) :
                                  db.tagsdf.columns[k] = t /\ db.tagsdf.rows[i][k] = 1

\* two patches with different tag sets, one of them with two tags, after
\* tags were inferred
C23_Witness ==
    /\ last.op = "classify_tags"
    /\ ~last.raised
    /\ Len(db.df) = 2
    /\ Cardinality(TagSet(db.df[1].tags)) = 2
    /\ TagSet(db.df[2].tags) # TagSet(db.df[1].tags)
    /\ db.tagsdf.rows[1] # db.tagsdf.rows[2]

(***************************************************************************)
(* C24.  The tag columns and the cached tag list are in sorted order when  *)
(* letters are compared without regard to case.                            *)
(***************************************************************************)
C24_TagColumnsSortedIgnoringCase ==
    /\ \A k, m \in 1..Len(db.tagsdf.columns) :
           k < m => ~StrLess(Lower(db.tagsdf.columns[m]), Lower(db.tagsdf.columns[k]))
    /\ \A k, m \in 1..Len(db.tags) :
           k < m => ~StrLess(Lower(db.tags[m]), Lower(db.tags[k]))

(***************************************************************************)
(* C25.  refresh is idempotent: a second refresh without a mutation in     *)
(* between leaves the tag table, the cached tag list and the cached bank   *)
(* list as the first left them, from any database the program reaches.     *)
(***************************************************************************)
C25_RefreshIdempotent ==
    db.active =>
        /\ refresh(refresh(db)).tagsdf = refresh(db).tagsdf
        /\ refresh(refresh(db)).tags = refresh(db).tags
        /\ refresh(refresh(db)).banks = refresh(db).banks

\* a database with two tag columns and two banks, whose table was loaded
\* from disk
C25_Witness ==
    /\ last.op = "from_disk"
    /\ db.active
    /\ Len(refresh(db).tagsdf.columns) >= 2
    /\ Len(refresh(db).banks) >= 2

(***************************************************************************)
(* C27.  find_patches_by_tags with a tag that no patch holds does not fail *)
(* and returns no row.                                                     *)
(***************************************************************************)
C27_FindUnusedTagIsEmpty ==
    (/\ last.op = "find_patches_by_tags"
     /\ db.active
     /\ \E t \in Range(last.tags) : \A i \in 1..Len(db.df) : t \notin TagSet(db.df[i].tags))
    => /\ ~found.raised
       /\ found.rows = <<>>

(***************************************************************************)
(* C28.  Every tag classify_tags adds to a patch is one of the tags the    *)
(* columns of the predictions stood for when the classifier was trained.   *)
(***************************************************************************)
C28_ClassifyUsesTrainedTags ==
    [][(last'.op = "classify_tags" /\ ~last'.raised)
        => \A i \in 1..Len(db.df) :
               (TagSet(db'.df[i].tags) \ TagSet(db.df[i].tags)) \subseteq Range(db.knn.labels)]_vars

C22_SizeFieldCountsBytes ==
    (last.op = "write_fxp" /\ ~last.raised) =>
        LET file == last.out
            rest == Len(file) - FXP_PREAMBEL_SIZE
            header == FXP_HEADER_SIZE - FXP_PREAMBEL_SIZE
        IN /\ SubSeq(file, 1, 4) = CHUNK_MAGIC
           /\ UnpackInt(SubSeq(file, 5, 8)) = rest
           /\ SubSeq(file, 9, 12) = FX_MAGIC_PARAMS =>
                  /\ last.arg.kind = "Preset"
                  /\ rest = header + 4 * UnpackInt(SubSeq(file, 25, 28))
           /\ SubSeq(file, 9, 12) = FX_MAGIC_CHUNK =>
                  /\ last.arg.kind = "ChunkPreset"
                  /\ UnpackInt(SubSeq(file, 57, 60)) = Len(last.arg.chunk)
                  /\ SubSeq(file, 61, Len(file)) = last.arg.chunk
                  /\ rest = header + 4 + Len(last.arg.chunk)
           /\ SubSeq(file, 9, 12) \in {FX_MAGIC_PARAMS, FX_MAGIC_CHUNK}

C22_Witness ==
    /\ last.op = "write_fxp"
    /\ ~last.raised
    /\ last.arg.kind = "ChunkPreset"
    /\ Len(last.arg.chunk) >= 3
    /\ last.arg.num_params = 0


(***************************************************************************)
(* C26.  Every chunk the encoders make of a vector of 99 parameters has    *)
(* the same length, and in its list of parameters the filler lies at       *)
(* 0x2AC, right after the value of parameter 85, the last before the       *)
(* ignored ones, and right before the entry of parameter 90, the first     *)
(* after them, whatever the values are.                                    *)
(***************************************************************************)
\* 569 bytes of header, 95 entries of 8 bytes, 32 bytes of filler and 1263
\* bytes of footer
S1_CHUNK_LENGTH == 2624

C26_FillerAtFixedOffset ==
    (last.op \in {"Synth1.make_fxp_chunk", "make_fxp_chunk"} /\ ~last.raised) =>
        LET chunk == last.out
            params == last.arg.params
            head == Len(s1_chunk_header(0))
            foot == Len(s1_chunk_footer(0))
            body == SubSeq(chunk, head + 1, Len(chunk) - foot)
            at == S1_IGNORED_OFFSET
            end == S1_IGNORED_OFFSET + Len(S1_IGNORED_FILLER)
        IN /\ Len(chunk) = S1_CHUNK_LENGTH
           /\ SubSeq(body, at + 1, end) = S1_IGNORED_FILLER
           /\ SubSeq(body, at - 3, at) = PackInt(params[86])
           /\ SubSeq(body, end + 1, end + 8) = PackInt(1) \o PackInt(params[91])

C26_Witness ==
    /\ last.op = "Synth1.make_fxp_chunk"
    /\ ~last.raised
    /\ last.arg.params[1] = MaxChunkValue
    /\ last.arg.params[86] = 0 - 1
    /\ last.arg.params[91] = 0

====
